---- MODULE Spec2Model ----
(***************************************************************************)
(* A model of the CRISP object store (crisp/mvir.py): content-addressed    *)
(* nodes written by temp-file + rename, the stamp files, the incrementally *)
(* maintained reverse index, tags with their reflog, and the memoizing    *)
(* `analysis` decorator (crisp/analysis.py) on top of the index.           *)
(*                                                                         *)
(* Python values are tagged records [t |-> <type name>, v |-> <payload>].  *)
(* A file's bytes are a sequence of tokens: one token per CBOR item head   *)
(* or atom, one token per raw byte.                                        *)
(***************************************************************************)
EXTENDS Integers, Sequences, FiniteSets, TLC

(***************************************************************************)
(* Bounds of the model.                                                    *)
(***************************************************************************)
\* Width of a digest in bytes (hashlib.sha256().digest_size is 32; the model
\* keeps the first LENGTH bytes of each digest of DigestTable).
LENGTH == 2
\* The clock runs from 0 to MaxTime.
MaxTime == 1
\* A tag's log holds at most MaxLog records.
MaxLog == 3
\* At most MaxCrashes processes die in a behaviour.
MaxCrashes == 1
MaxWalk == 3
\* LLM_SAFETY_TRIES of the environment of do_main.
LlmSafetyTries == 1

(***************************************************************************)
(* Python values.                                                          *)
(***************************************************************************)
PNone == [t |-> "none", v |-> 0]
PStr(s) == [t |-> "str", v |-> s]
PInt(n) == [t |-> "int", v |-> n]
PBytes(raw) == [t |-> "bytes", v |-> raw]
PList(xs) == [t |-> "list", v |-> xs]
PTuple(xs) == [t |-> "tuple", v |-> xs]
\* A dict is its sequence of <<key, value>> pairs in insertion order.
PDict(pairs) == [t |-> "dict", v |-> pairs]
PNodeId(raw) == [t |-> "NodeId", v |-> raw]
\* A datetime is its (year, month, day, hour, minute, second, microsecond).
PDatetime(fields) == [t |-> "datetime", v |-> fields]

\* Python's order on the strings the model uses (str.__lt__).
StrOrder ==
  << "../x.rs", "./x.rs", "/x.rs", "c1", "c2", "c_code", "cmd", "cmds", "code",
     "compile_commands", "exit_code", "extra", "file", "files", "kind", "llm_op",
     "new_code", "old_code", "raw_prompt", "request", "response", "src//x.rs",
     "src/x.rs", "src/y.rs", "test_code", "test_result_node", "tree", "x.rs", "y.rs",
     "z.rs" >>

StrRank(s) == CHOOSE i \in DOMAIN StrOrder : StrOrder[i] = s

RECURSIVE Concat(_)
Concat(seqs) ==
  IF seqs = <<>> THEN <<>> ELSE Head(seqs) \o Concat(Tail(seqs))

\* list.insert keeping the list sorted by key x[0], after equal keys (sorted()
\* is stable).
RECURSIVE InsertSorted(_, _)
InsertSorted(p, sorted) ==
  IF sorted = <<>> THEN <<p>>
  ELSE IF StrRank(p.v[1].v) < StrRank(Head(sorted).v[1].v)
       THEN <<p>> \o sorted
       ELSE <<Head(sorted)>> \o InsertSorted(p, Tail(sorted))

\* Faulty variant, for comparison: the pairs stay in the order of insertion.
SortedPairs_InsertionOrder(pairs) == pairs

RECURSIVE SortedPairs(_)
SortedPairs(pairs) ==
  IF pairs = <<>> THEN <<>>
  ELSE InsertSorted(pairs[Len(pairs)], SortedPairs(SubSeq(pairs, 1, Len(pairs) - 1)))

\* to_cbor: the CBOR-serializable form of a Python value.
RECURSIVE to_cbor(_)
to_cbor(x) ==
  CASE x.t \in {"none", "bool", "int", "float", "str", "bytes"} -> x
    [] x.t \in {"list", "tuple"} -> PList([i \in DOMAIN x.v |-> to_cbor(x.v[i])])
    [] x.t = "dict" ->
         PList(SortedPairs([i \in DOMAIN x.v |->
                 PTuple(<<to_cbor(x.v[i][1]), to_cbor(x.v[i][2])>>)]))
    [] x.t = "datetime" -> PTuple([i \in DOMAIN x.v |-> PInt(x.v[i])])
    [] x.t = "NodeId" -> PBytes(x.v)

\* cbor.dumps: an array is a head token carrying its length, then its items;
\* any other item is one token.
RECURSIVE cbor_dumps(_)
cbor_dumps(x) ==
  IF x.t \in {"list", "tuple"}
  THEN <<[t |-> "arr", v |-> Len(x.v)]>>
         \o Concat([i \in DOMAIN x.v |-> cbor_dumps(x.v[i])])
  ELSE <<x>>

\* cbor.load from offset pos (1-based): [ok, val, next]; a truncated or
\* non-CBOR input fails.  Arrays load as lists.
LoadFail == [ok |-> FALSE, val |-> PNone, next |-> 0]

RECURSIVE cbor_load(_, _)
RECURSIVE cbor_load_items(_, _, _, _)
cbor_load(data, pos) ==
  IF pos > Len(data) THEN LoadFail
  ELSE IF data[pos].t = "arr" THEN cbor_load_items(data, pos + 1, data[pos].v, <<>>)
  ELSE IF data[pos].t \in {"none", "bool", "int", "float", "str", "bytes"}
       THEN [ok |-> TRUE, val |-> data[pos], next |-> pos + 1]
  ELSE LoadFail

cbor_load_items(data, pos, n, acc) ==
  IF n = 0 THEN [ok |-> TRUE, val |-> PList(acc), next |-> pos]
  ELSE LET r == cbor_load(data, pos)
       IN  IF r.ok THEN cbor_load_items(data, r.next, n - 1, Append(acc, r.val))
           ELSE LoadFail

\* The raw bytes of a bytes object, one token each.
RawBytes(raw) == [i \in DOMAIN raw |-> [t |-> "byte", v |-> raw[i]]]

(***************************************************************************)
(* Types (typing hints) and typed decoding.                                *)
(***************************************************************************)
TNone == [o |-> "none"]
TStr == [o |-> "str"]
TInt == [o |-> "int"]
TNodeId == [o |-> "NodeId"]
TAny == [o |-> "Any"]
TDatetime == [o |-> "datetime"]
TList(e) == [o |-> "list", e |-> e]
TTuple(es) == [o |-> "tuple", es |-> es]
TDict(k, v) == [o |-> "dict", k |-> k, w |-> v]
TUnion(args) == [o |-> "Union", args |-> args]
TOptional(ty) == TUnion(<<ty, TNone>>)

Ok(val) == [ok |-> TRUE, val |-> val]
Raise == [ok |-> FALSE, val |-> PNone]

\* isinstance(x, ty) for the primitive types (bool is a subclass of int).
IsInstance(x, o) == x.t = o \/ (o = "int" /\ x.t = "bool")

\* NodeId(raw): __post_init__ asserts len(raw) == NodeId.LENGTH and checks
\* nothing else; len() of None or of a number raises TypeError.
NodeId_from_cbor(raw) ==
  IF raw.t \notin {"none", "bool", "int", "float"} /\ Len(raw.v) = LENGTH
  THEN Ok(PNodeId(raw.v))
  ELSE Raise

RECURSIVE from_cbor(_, _)
RECURSIVE from_cbor_union(_, _)
from_cbor(ty, x) ==
  CASE ty.o \in {"none", "bool", "int", "float", "str", "bytes"} ->
         IF IsInstance(x, ty.o) THEN Ok(x) ELSE Raise
    [] ty.o = "list" ->
         IF x.t \notin {"list", "tuple"} THEN Raise
         ELSE LET rs == [i \in DOMAIN x.v |-> from_cbor(ty.e, x.v[i])]
              IN  IF \A i \in DOMAIN rs : rs[i].ok
                  THEN Ok(PList([i \in DOMAIN rs |-> rs[i].val]))
                  ELSE Raise
    [] ty.o = "tuple" ->
         IF x.t \notin {"list", "tuple"} \/ Len(ty.es) # Len(x.v) THEN Raise
         ELSE LET rs == [i \in DOMAIN x.v |-> from_cbor(ty.es[i], x.v[i])]
              IN  IF \A i \in DOMAIN rs : rs[i].ok
                  THEN Ok(PTuple([i \in DOMAIN rs |-> rs[i].val]))
                  ELSE Raise
    [] ty.o = "dict" ->
         \* Dicts are serialized as lists of pairs.
         IF x.t \notin {"list", "tuple"} THEN Raise
         ELSE IF \E i \in DOMAIN x.v :
                   x.v[i].t \notin {"list", "tuple"} \/ Len(x.v[i].v) # 2
         THEN Raise
         ELSE LET ks == [i \in DOMAIN x.v |-> from_cbor(ty.k, x.v[i].v[1])]
                  ws == [i \in DOMAIN x.v |-> from_cbor(ty.w, x.v[i].v[2])]
              IN  IF \A i \in DOMAIN x.v : ks[i].ok /\ ws[i].ok
                  THEN Ok(PDict([i \in DOMAIN x.v |-> <<ks[i].val, ws[i].val>>]))
                  ELSE Raise
    [] ty.o = "datetime" ->
         IF x.t \notin {"list", "tuple"} THEN Raise
         ELSE IF Len(x.v) # 7 \/ \E i \in DOMAIN x.v : x.v[i].t # "int" THEN Raise
         ELSE Ok(PDatetime([i \in DOMAIN x.v |-> x.v[i].v]))
    [] ty.o = "Any" -> Ok(x)
    [] ty.o = "Union" -> from_cbor_union(ty.args, x)
    [] ty.o = "NodeId" -> NodeId_from_cbor(x)

\* The first variant that decodes wins; when none does the function falls off
\* its end and returns None.
from_cbor_union(args, x) ==
  IF args = <<>> THEN Ok(PNone)
  ELSE LET r == from_cbor(Head(args), x)
       IN  IF r.ok THEN r ELSE from_cbor_union(Tail(args), x)

\* check_type: TRUE when the check passes, FALSE when it raises.
RECURSIVE check_type(_, _)
check_type(ty, x) ==
  CASE ty.o \in {"none", "bool", "int", "float", "str", "bytes"} -> IsInstance(x, ty.o)
    [] ty.o = "list" ->
         x.t = "list" /\ \A i \in DOMAIN x.v : check_type(ty.e, x.v[i])
    [] ty.o = "tuple" ->
         /\ x.t \in {"list", "tuple"}
         /\ Len(ty.es) = Len(x.v)
         /\ \A i \in DOMAIN x.v : check_type(ty.es[i], x.v[i])
    [] ty.o = "dict" ->
         x.t = "dict" /\ \A i \in DOMAIN x.v :
            check_type(ty.k, x.v[i][1]) /\ check_type(ty.w, x.v[i][2])
    [] ty.o = "Union" -> TRUE
    [] ty.o = "Any" -> TRUE
    [] ty.o = "NodeId" -> x.t = "NodeId"

(***************************************************************************)
(* Node classes: KIND and the Metadata[...] fields of each.                *)
(***************************************************************************)
NODE_KIND_MAP ==
  [file |-> "FileNode", tree |-> "TreeNode", test_result_node |-> "TestResultNode",
   compile_commands_op_v2 |-> "CompileCommandsOpNode", llm_op |-> "LlmOpNode"]

\* The classes of earlier versions of the program, which are no longer in
\* NODE_CLASSES, and the kind under which each stored its nodes.
RetiredKinds ==
  [CompileCommandsOpNode_v1 |-> "compile_commands_op", OldANode |-> "old_a"]

KIND(cls) ==
  IF cls \in DOMAIN RetiredKinds THEN RetiredKinds[cls]
  ELSE CHOOSE k \in DOMAIN NODE_KIND_MAP : NODE_KIND_MAP[k] = cls

_metadata_field_types(cls) ==
  CASE cls = "FileNode" -> [kind |-> TStr]
    [] cls = "TreeNode" -> [kind |-> TStr, files |-> TDict(TStr, TNodeId)]
    [] cls = "TestResultNode" ->
         [kind |-> TStr, code |-> TNodeId, test_code |-> TNodeId,
          cmd |-> TStr, exit_code |-> TInt]
    [] cls = "CompileCommandsOpNode" ->
         [kind |-> TStr, c_code |-> TNodeId, cmds |-> TList(TList(TStr)),
          exit_code |-> TInt, compile_commands |-> TOptional(TNodeId)]
    [] cls = "LlmOpNode" ->
         [kind |-> TStr, old_code |-> TNodeId, new_code |-> TNodeId,
          raw_prompt |-> TNodeId, request |-> TNodeId, response |-> TNodeId]

\* The keys of a dict (of str keys), and the value under a key.
DictKeys(d) == {d.v[i][1].v : i \in DOMAIN d.v}
DictGet(d, k) == d.v[CHOOSE i \in DOMAIN d.v : d.v[i][1].v = k][2]

\* Faulty variant, for comparison: keys that are not fields of the class are let through.
Node_check_metadata_MissingOnly(cls, metadata) ==
  LET field_tys == _metadata_field_types(cls)
  IN  IF metadata.t # "dict" THEN "TypeError"
      ELSE IF ~(DOMAIN field_tys \subseteq DictKeys(metadata)) THEN "ValueError"
      ELSE IF \E i \in DOMAIN metadata.v :
                /\ metadata.v[i][1].v \in DOMAIN field_tys
                /\ ~check_type(field_tys[metadata.v[i][1].v], metadata.v[i][2])
      THEN "AssertionError"
      ELSE "ok"

\* Node._check_metadata: "ok", or the exception it raises.
Node_check_metadata(cls, metadata) ==
  LET field_tys == _metadata_field_types(cls)
  IN  IF metadata.t # "dict" THEN "TypeError"
      ELSE IF DictKeys(metadata) # DOMAIN field_tys THEN "ValueError"
      ELSE IF \E i \in DOMAIN metadata.v :
                ~check_type(field_tys[metadata.v[i][1].v], metadata.v[i][2])
      THEN "AssertionError"
      ELSE "ok"

\* TreeNode._check_metadata adds the checks on `files`, LlmOpNode._check_metadata
\* the check that its five fields are NodeIds.
_check_metadata(cls, metadata) ==
  LET base == Node_check_metadata(cls, metadata)
  IN  IF base # "ok" \/ cls \notin {"TreeNode", "LlmOpNode"} THEN base
      ELSE IF cls = "LlmOpNode"
      THEN IF \E k \in {"old_code", "new_code", "raw_prompt", "request", "response"} :
                DictGet(metadata, k).t # "NodeId"
           THEN "TypeError" ELSE "ok"
      ELSE LET files == DictGet(metadata, "files")
           IN  IF files.t # "dict" THEN "TypeError"
               ELSE IF \E i \in DOMAIN files.v :
                         files.v[i][1].t # "str" \/ files.v[i][2].t # "NodeId"
               THEN "TypeError"
               ELSE "ok"

\* Faulty variant, for comparison: the walk does not descend into dicts.
RECURSIVE _metadata_node_ids_NoDict(_)
_metadata_node_ids_NoDict(x) ==
  CASE x.t = "NodeId" -> <<x.v>>
    [] x.t \in {"list", "tuple"} ->
         Concat([i \in DOMAIN x.v |-> _metadata_node_ids_NoDict(x.v[i])])
    [] OTHER -> <<>>

\* _metadata_node_ids: the NodeIds inside a metadata value, in the order of
\* the walk (with repetitions).
RECURSIVE _metadata_node_ids(_)
_metadata_node_ids(x) ==
  CASE x.t \in {"none", "bool", "int", "float", "str", "bytes", "datetime"} -> <<>>
    [] x.t = "NodeId" -> <<x.v>>
    [] x.t \in {"list", "tuple"} ->
         Concat([i \in DOMAIN x.v |-> _metadata_node_ids(x.v[i])])
    [] x.t = "dict" ->
         Concat([i \in DOMAIN x.v |->
                   _metadata_node_ids(x.v[i][1]) \o _metadata_node_ids(x.v[i][2])])

(***************************************************************************)
(* The nodes of the model and their digests.                               *)
(***************************************************************************)
\* SHA-256 is modelled as an injective table on the byte strings the model
\* hashes: DigestTable[i] is the digest of HashDomain[i], the last row the
\* digest of anything else.
DigestTable ==
  << <<"a1", "07", "5c">>, <<"4b", "d2", "19">>, <<"a1", "9e", "33">>,
     <<"c3", "60", "f4">>, <<"7e", "11", "a0">>, <<"7e", "8a", "0b">>,
     <<"2d", "45", "e7">>, <<"2d", "f0", "68">>, <<"e5", "21", "9a">>,
     <<"e5", "b3", "02">>, <<"e5", "0d", "77">>, <<"91", "6c", "d8">>,
     <<"91", "a4", "3f">>, <<"f8", "13", "5d">>, <<"f8", "c4", "21">>,
     <<"3a", "70", "be">>, <<"3a", "09", "44">>, <<"6d", "52", "c9">>,
     <<"b7", "2e", "10">>, <<"b7", "95", "6a">>, <<"d0", "48", "f3">>,
     <<"d0", "e1", "07">>, <<"58", "3b", "c2">>, <<"c9", "5a", "e1">>,
     <<"6d", "b8", "14">>, <<"14", "c7", "aa">>, <<"29", "3d", "01">>,
     <<"35", "e2", "5b">>, <<"46", "0f", "d3">>, <<"5f", "71", "88">>,
     <<"62", "9b", "ee">>, <<"73", "a6", "12">>, <<"84", "d5", "4c">>,
     <<"9a", "18", "b6">>, <<"ab", "3c", "5e">>, <<"cf", "66", "2a">>,
     <<"00", "00", "00">> >>

Digest(i) == SubSeq(DigestTable[i], 1, LENGTH)

\* The arguments of a Node.new call: the class, the keyword arguments in the
\* order given, and the body.
NewArgs(cls, kwargs, body) == [cls |-> cls, kwargs |-> kwargs, body |-> body]

FileA == NewArgs("FileNode", <<>>, <<"a">>)
FileB == NewArgs("FileNode", <<>>, <<"b">>)
TreeA == NewArgs("TreeNode",
                 << <<PStr("files"), PDict(<< <<PStr("x.rs"), PNodeId(Digest(1))>> >>)>> >>,
                 <<>>)
TreeB == NewArgs("TreeNode",
                 << <<PStr("files"), PDict(<< <<PStr("x.rs"), PNodeId(Digest(2))>> >>)>> >>,
                 <<>>)

\* TestResultNode.new as run_tests calls it; the body is the log.
TestResult(code, test_code, cmd, exit_code) ==
  NewArgs("TestResultNode",
          << <<PStr("code"), PNodeId(code)>>, <<PStr("test_code"), PNodeId(test_code)>>,
             <<PStr("cmd"), PStr(cmd)>>, <<PStr("exit_code"), PInt(exit_code)>> >>,
          <<"log">>)

\* A node of the retired kind old_a, which had no field but kind.
OldA == NewArgs("OldANode", <<>>, <<"a">>)

\* A node of the retired kind compile_commands_op, as the earlier version of
\* the program stored it, with compile_commands = cc.
CompileCommandsOld(cc) ==
  NewArgs("CompileCommandsOpNode_v1",
          << <<PStr("c_code"), PNodeId(Digest(3))>>,
             <<PStr("cmd"), PList(<<PStr("c1"), PStr("c2")>>)>>,
             <<PStr("exit_code"), PInt(0)>>, <<PStr("compile_commands"), cc>> >>,
          <<"log">>)

\* CompileCommandsOpNode.new(mvir, c_code=..., cmds=[cmd], exit_code=...,
\* compile_commands=cc), with the body of the node above.
CompileCommandsNew(cc) ==
  NewArgs("CompileCommandsOpNode",
          << <<PStr("c_code"), PNodeId(Digest(3))>>,
             <<PStr("cmds"), PList(<< PList(<<PStr("c1"), PStr("c2")>>) >>)>>,
             <<PStr("exit_code"), PInt(0)>>, <<PStr("compile_commands"), cc>> >>,
          <<"log">>)

\* Calls whose keyword arguments are not the fields of the class: one too
\* many, one too few, or both.
FileExtra == NewArgs("FileNode", << <<PStr("extra"), PInt(0)>> >>, <<"a">>)
TreeMissing == NewArgs("TreeNode", <<>>, <<>>)
TreeExtra == NewArgs("TreeNode", Append(TreeA.kwargs, <<PStr("extra"), PInt(0)>>), <<>>)
TreeBoth == NewArgs("TreeNode", << <<PStr("extra"), PInt(0)>> >>, <<>>)
TestResultMissing ==
  NewArgs("TestResultNode",
          SubSeq(TestResult(Digest(3), Digest(3), "c1", 0).kwargs, 1, 3), <<"log">>)
CompileCommandsMissing ==
  NewArgs("CompileCommandsOpNode", SubSeq(CompileCommandsNew(PNone).kwargs, 1, 3), <<"log">>)

\* TreeNode.new(mvir, files={path: <FileA>})
TreeAt(path) ==
  NewArgs("TreeNode",
          << <<PStr("files"), PDict(<< <<PStr(path), PNodeId(Digest(1))>> >>)>> >>, <<>>)

\* TreeNode.new(mvir, files={'x.rs': <FileA>, 'y.rs': <FileB>}), and the same
\* with the dict built in the other order.
TreeTwo ==
  NewArgs("TreeNode",
          << <<PStr("files"), PDict(<< <<PStr("x.rs"), PNodeId(Digest(1))>>,
                                       <<PStr("y.rs"), PNodeId(Digest(2))>> >>)>> >>, <<>>)
TreeTwoReversed ==
  NewArgs("TreeNode",
          << <<PStr("files"), PDict(<< <<PStr("y.rs"), PNodeId(Digest(2))>>,
                                       <<PStr("x.rs"), PNodeId(Digest(1))>> >>)>> >>, <<>>)

\* TestResultNode.new with the keyword arguments given in the reverse order.
TestResultReversed(code, test_code, cmd, exit_code) ==
  NewArgs("TestResultNode",
          << <<PStr("exit_code"), PInt(exit_code)>>, <<PStr("cmd"), PStr(cmd)>>,
             <<PStr("test_code"), PNodeId(test_code)>>, <<PStr("code"), PNodeId(code)>> >>,
          <<"log">>)

\* TreeNode.new(mvir, files={'src/x.rs': x, 'src/y.rs': <FileB>}): the tree
\* run_rewrite is given has x = <FileA>, the tree the LLM rewrote has x = <FileB>.
TreeSrcWith(x) ==
  NewArgs("TreeNode",
          << <<PStr("files"), PDict(<< <<PStr("src/x.rs"), PNodeId(x)>>,
                                       <<PStr("src/y.rs"), PNodeId(Digest(2))>> >>)>> >>, <<>>)
TreeSrc == TreeSrcWith(Digest(1))
TreeSrcOut == TreeSrcWith(Digest(2))

\* The three FileNodes run_rewrite stores beside the trees: the prompt without
\* the files, the request, and the response (one per response text).
FilePrompt == NewArgs("FileNode", <<>>, <<"prompt">>)
FileRequest == NewArgs("FileNode", <<>>, <<"request">>)
FileResponse(text) == NewArgs("FileNode", <<>>, <<"response", text>>)

\* LlmOpNode.new(mvir, old_code=..., new_code=..., raw_prompt=..., request=...,
\* response=...)
LlmOp(old_code, new_code, response) ==
  NewArgs("LlmOpNode",
          << <<PStr("old_code"), PNodeId(old_code)>>, <<PStr("new_code"), PNodeId(new_code)>>,
             <<PStr("raw_prompt"), PNodeId(Digest(28))>>,
             <<PStr("request"), PNodeId(Digest(29))>>,
             <<PStr("response"), PNodeId(response)>> >>,
          <<>>)

\* Node.new: metadata is the keyword arguments plus 'kind', added last.
NewMetadata(a) == PDict(Append(a.kwargs, <<PStr("kind"), PStr(KIND(a.cls))>>))

\* meta_bytes = cbor.dumps(to_cbor(metadata))
MetaBytes(metadata) == cbor_dumps(to_cbor(metadata))

\* What _create hashes and writes: meta_bytes, then the body.
NodeBytes(metadata, body) == MetaBytes(metadata) \o RawBytes(body)

Universe ==
  << FileA, FileB, TreeA, TreeB,
     TestResult(Digest(3), Digest(3), "c1", 0), TestResult(Digest(3), Digest(3), "c1", 1),
     TestResult(Digest(3), Digest(3), "c2", 0), TestResult(Digest(3), Digest(3), "c2", 1),
     OldA, CompileCommandsOld(PNone), CompileCommandsOld(PNodeId(Digest(1))),
     CompileCommandsNew(PNone), CompileCommandsNew(PNodeId(Digest(1))),
     FileExtra, TreeMissing, TreeExtra, TestResultMissing, CompileCommandsMissing,
     TreeAt("/x.rs"), TreeAt("../x.rs"), TreeAt("./x.rs"), TreeAt("src//x.rs"),
     CompileCommandsNew(PInt(7)), TestResult(Digest(3), Digest(4), "c1", 0),
     TreeTwo,
     TreeSrc, TreeSrcOut, FilePrompt, FileRequest,
     FileResponse("rewritten"), FileResponse("ignored"),
     LlmOp(Digest(26), Digest(27), Digest(30)), LlmOp(Digest(26), Digest(26), Digest(31)),
     LlmOp(Digest(27), Digest(26), Digest(30)),
     TestResult(Digest(25), Digest(4), "c1", 1), TestResult(Digest(26), Digest(4), "c1", 0) >>

HashDomain == [i \in DOMAIN Universe |-> NodeBytes(NewMetadata(Universe[i]), Universe[i].body)]

\* h = hashlib.sha256(); h.update(meta_bytes); h.update(body); h.digest()
Sha256(bytes) ==
  IF \E i \in DOMAIN HashDomain : HashDomain[i] = bytes
  THEN Digest(CHOOSE i \in DOMAIN HashDomain : HashDomain[i] = bytes)
  ELSE Digest(Len(DigestTable))

NodeIdOf(a) == Sha256(NodeBytes(NewMetadata(a), a.body))

AllIds == {Digest(i) : i \in DOMAIN Universe}

\* _node_path / _index_path: <root>/<first byte as hex>/<remaining bytes as hex>.
ShardOf(id) == id[1]
Shards == {ShardOf(id) : id \in AllIds}


(***************************************************************************)
(* Loading a node file: Node._get after open(path).                        *)
(***************************************************************************)
HasKey(d, k) == \E i \in DOMAIN d.v : d.v[i][1] = PStr(k)

\* d[k] = val: in place when the key is present, appended otherwise.
DictSet(d, k, val) ==
  IF HasKey(d, k)
  THEN PDict([i \in DOMAIN d.v |-> IF d.v[i][1] = PStr(k) THEN <<PStr(k), val>> ELSE d.v[i]])
  ELSE PDict(Append(d.v, <<PStr(k), val>>))

\* d without the key k (d.pop(k) for a key that is present).
RECURSIVE DropKey(_, _)
DropKey(pairs, k) ==
  IF pairs = <<>> THEN <<>>
  ELSE IF Head(pairs)[1] = PStr(k) THEN DropKey(Tail(pairs), k)
  ELSE <<Head(pairs)>> \o DropKey(Tail(pairs), k)

\* Faulty variant, for comparison: cmd is moved to cmds without the list around it.
migrate_compile_commands_op_Unwrapped(metadata) ==
  LET m1 == DictSet(metadata, "kind", PStr("compile_commands_op_v2"))
  IN  IF ~HasKey(m1, "cmd") THEN Raise
      ELSE Ok(DictSet(PDict(DropKey(m1.v, "cmd")), "cmds", DictGet(m1, "cmd")))

\* migrate_compile_commands_op; metadata.pop('cmd') raises KeyError when the
\* key is missing.
migrate_compile_commands_op(metadata) ==
  LET m1 == DictSet(metadata, "kind", PStr("compile_commands_op_v2"))
  IN  IF ~HasKey(m1, "cmd") THEN Raise
      ELSE Ok(DictSet(PDict(DropKey(m1.v, "cmd")), "cmds", PList(<<DictGet(m1, "cmd")>>)))

\* A migration function: the one of the module, or one a caller registers,
\* which sets metadata['kind'] to a kind or deletes the key.
MigrationFn(fn, to) == [fn |-> fn, to |-> to]

\* NODE_MIGRATION_MAP after the import of the module: the function registered
\* for each old kind.
NODE_MIGRATION_MAP ==
  [compile_commands_op |-> MigrationFn("migrate_compile_commands_op", "")]

\* migration_func(metadata): the dict after the call, or the exception.
ApplyMigration(f, metadata) ==
  CASE f.fn = "migrate_compile_commands_op" -> migrate_compile_commands_op(metadata)
    [] f.fn = "set_kind" -> Ok(DictSet(metadata, "kind", PStr(f.to)))
    [] f.fn = "del_kind" -> Ok(PDict(DropKey(metadata.v, "kind")))

\* detail holds the kinds the message of an unknown-kind error names.
LoadError(error) ==
  [ok |-> FALSE, error |-> error, cls |-> "", metadata |-> PNone, body_offset |-> 0,
   detail |-> <<>>]

\* Faulty variant, for comparison: the message never names the stored kind.
UnknownKind_Bare(cls_name, orig_cls_name) ==
  [LoadError("KeyError: unknown node kind") EXCEPT !.detail = <<cls_name>>]

\* The KeyError for a kind that has no migration: it names the kind and,
\* after a migration, the kind the node was stored under.
UnknownKind(cls_name, orig_cls_name) ==
  [LoadError("KeyError: unknown node kind") EXCEPT !.detail =
     IF cls_name = orig_cls_name THEN <<cls_name>> ELSE <<cls_name, orig_cls_name>>]

\* One evaluation of the condition of the while loop of _get and, when it
\* holds, of its body, with the registry reg: the loop ends (done) with the
\* class or an exception, or goes on with the migrated metadata.
KindStep(reg, metadata, cls_name, orig_cls_name) ==
  IF cls_name.t = "str" /\ cls_name.v \in DOMAIN NODE_KIND_MAP
  THEN [done |-> TRUE, metadata |-> metadata, cls_name |-> cls_name,
        r |-> [LoadError("") EXCEPT !.ok = TRUE, !.cls = NODE_KIND_MAP[cls_name.v],
                                    !.metadata = metadata]]
  ELSE IF cls_name.t # "str" \/ cls_name.v \notin DOMAIN reg
  THEN [done |-> TRUE, metadata |-> metadata, cls_name |-> cls_name,
        r |-> UnknownKind(cls_name, orig_cls_name)]
  ELSE LET m == ApplyMigration(reg[cls_name.v], metadata)
       IN  IF ~m.ok
           THEN [done |-> TRUE, metadata |-> metadata, cls_name |-> cls_name,
                 r |-> LoadError("KeyError")]
           ELSE IF ~HasKey(m.val, "kind")
           THEN [done |-> TRUE, metadata |-> m.val, cls_name |-> cls_name,
                 r |-> [LoadError("KeyError: missing kind") EXCEPT !.detail = <<cls_name>>]]
           ELSE [done |-> FALSE, metadata |-> m.val, cls_name |-> DictGet(m.val, "kind"),
                 r |-> LoadError("")]

\* The loop of _get that follows migrations from the stored kind to a
\* registered one, when it ends: [ok, error, cls, metadata].
RECURSIVE ResolveKind(_, _, _, _)
ResolveKind(reg, metadata, cls_name, orig_cls_name) ==
  LET s == KindStep(reg, metadata, cls_name, orig_cls_name)
  IN  IF s.done THEN s.r
      ELSE ResolveKind(reg, s.metadata, s.cls_name, orig_cls_name)

\* Node._metadata_from_cbor
_metadata_from_cbor(cls, dct) ==
  LET field_tys == _metadata_field_types(cls)
  IN  IF \E i \in DOMAIN dct.v : dct.v[i][1].v \notin DOMAIN field_tys
      THEN Raise
      ELSE LET rs == [i \in DOMAIN dct.v |->
                        from_cbor(field_tys[dct.v[i][1].v], dct.v[i][2])]
           IN  IF \E i \in DOMAIN rs : ~rs[i].ok THEN Raise
               ELSE IF DictKeys(dct) # DOMAIN field_tys THEN Raise
               ELSE Ok(PDict([i \in DOMAIN dct.v |-> <<dct.v[i][1], rs[i].val>>]))

\* The pairs cbor.load returned, as the dict {k: v for k, v in metadata};
\* anything that is not a list of pairs with str keys does not load.
IsPairList(x) ==
  /\ x.t = "list"
  /\ \A i \in DOMAIN x.v :
        x.v[i].t = "list" /\ Len(x.v[i].v) = 2 /\ x.v[i].v[1].t = "str"

\* The end of _get: cls._metadata_from_cbor(metadata), and the schema check
\* of cls(mvir, node_id, metadata, body_offset).
Decode(cls, metadata, body_offset) ==
  LET m == _metadata_from_cbor(cls, metadata)
  IN  IF ~m.ok THEN LoadError("malformed: metadata")
      ELSE IF _check_metadata(cls, m.val) # "ok" THEN LoadError("malformed: schema")
      ELSE [LoadError("") EXCEPT !.ok = TRUE, !.cls = cls, !.metadata = m.val,
                                 !.body_offset = body_offset]

\* Node._get from the bytes of the file, with the registry of the module:
\* [ok, error, cls, metadata, body_offset].
LoadNode(data) ==
  LET r == cbor_load(data, 1)
  IN  IF ~r.ok THEN LoadError("malformed: cbor.load")
      ELSE IF ~IsPairList(r.val) THEN LoadError("malformed: not a list of pairs")
      ELSE LET raw == PDict([i \in DOMAIN r.val.v |-> <<r.val.v[i].v[1], r.val.v[i].v[2]>>])
           IN  IF ~HasKey(raw, "kind") THEN LoadError("KeyError: missing kind")
               ELSE LET k == ResolveKind(NODE_MIGRATION_MAP, raw, DictGet(raw, "kind"),
                                         DictGet(raw, "kind"))
                    IN  IF ~k.ok THEN k ELSE Decode(k.cls, k.metadata, r.next - 1)

(***************************************************************************)
(* Index entries and the index shard files.                                *)
(***************************************************************************)
IndexEntry(node_id, kind, key) == [node_id |-> node_id, kind |-> kind, key |-> key]

\* _dataclass_to_cbor, then cbor.dump
IndexEntryBytes(e) ==
  cbor_dumps(to_cbor(PTuple(<<PNodeId(e.node_id), PStr(e.kind), PStr(e.key)>>)))

\* _dataclass_from_cbor for IndexEntry
IndexEntry_from_cbor(raw) ==
  LET r == from_cbor(TTuple(<<TNodeId, TStr, TStr>>), raw)
  IN  IndexEntry(r.val.v[1].v, r.val.v[2].v, r.val.v[3].v)

\* The loop of MVIR.index that reads entries up to the end of the file.
RECURSIVE ReadIndexFile(_, _)
ReadIndexFile(data, pos) ==
  IF pos > Len(data) THEN <<>>
  ELSE LET r == cbor_load(data, pos)
       IN  <<IndexEntry_from_cbor(r.val)>> \o ReadIndexFile(data, r.next)

\* Faulty variant, for comparison: every entry carries the first key of the metadata.
NodeRefs_FirstKey(src_id, metadata) ==
  Concat([i \in DOMAIN metadata.v |->
            LET ids == _metadata_node_ids(metadata.v[i][2])
            IN  [j \in DOMAIN ids |->
                   << ids[j],
                      IndexEntry(src_id, DictGet(metadata, "kind").v, metadata.v[1][1].v) >>]])

\* The entries _update_index appends for node src_id: one per NodeId found in
\* each metadata value, as <<dest_id, entry>>, in the order of the loops.
NodeRefs(src_id, metadata) ==
  Concat([i \in DOMAIN metadata.v |->
            LET ids == _metadata_node_ids(metadata.v[i][2])
            IN  [j \in DOMAIN ids |->
                   << ids[j],
                      IndexEntry(src_id, DictGet(metadata, "kind").v, metadata.v[i][1].v) >>]])

\* Faulty variant, for comparison: the index file is opened with 'wb'.
RECURSIVE AppendRefs_Overwrite(_, _)
AppendRefs_Overwrite(idx, refs) ==
  IF refs = <<>> THEN idx
  ELSE AppendRefs_Overwrite([idx EXCEPT ![Head(refs)[1]] = IndexEntryBytes(Head(refs)[2])],
                            Tail(refs))

\* The index after the appends (open(path, 'ab'); cbor.dump) of `refs`.
RECURSIVE AppendRefs(_, _)
AppendRefs(idx, refs) ==
  IF refs = <<>> THEN idx
  ELSE AppendRefs([idx EXCEPT ![Head(refs)[1]] = @ \o IndexEntryBytes(Head(refs)[2])],
                  Tail(refs))

(***************************************************************************)
(* The state: the store's directory tree, shared by the processes, and     *)
(* each process's memory (its MVIR object and the call it is executing).   *)
(***************************************************************************)
Procs == {"p", "q"}
StampNames == {"nodes", "index"}
TagNames == {"test_results", "test_passed", "op_history", "current"}

\* The two tags run_tests moves.
TestTags == {"test_results", "test_passed"}

VARIABLES
  now,         \* the filesystem clock
  nodes,       \* nodes/<b0>/<rest>: the file at each node's final path
  dirs,        \* nodes/<b0>: the shard directories (nodes/ exists when one does)
  tmp,         \* the mkstemp file each running _create holds
  orphans,     \* the shard directories where dead processes left temp files
  stamps,      \* stamps/<name>
  index,       \* index/<b0>/<rest>: the bytes appended to each shard file
  tags,        \* tags/<name>: the bytes of each tag's log
  pc,          \* where each process is in the call it executes
  loc,         \* the local variables of that call
  nodeCache,   \* mvir._nodes of each process: the nodes it holds
  stampCache,  \* mvir._stamp_mtime_cache of each process
  result,      \* what each process's last call returned or raised
  crashes,     \* how many processes have died
  memo,        \* the call of a memoized analysis function each process is in
  tagCalls,    \* history: the set_tag calls made on each tag name, in order
  completed,   \* history: the cmd arguments of the run_tests calls that returned
  registry,    \* NODE_MIGRATION_MAP of each process
  work,        \* <mvir_storage_dir>/work: the work directory and its files
  KEEP_WORK_DIR, \* the global KEEP_WORK_DIR of work_dir.py in each process
  frame          \* the locals of the run_rewrite, render, do_transpile or do_main call of each process

vars ==
  << now, nodes, dirs, tmp, orphans, stamps, index, tags,
     pc, loc, nodeCache, stampCache, result, crashes, memo, tagCalls, completed,
     registry, work, KEEP_WORK_DIR, frame >>

disk == << nodes, dirs, tmp, orphans, stamps, index, tags >>

\* An optional mtime: None, or st_mtime_ns.
None == [some |-> FALSE, t |-> 0]
Some(t) == [some |-> TRUE, t |-> t]

NoFile == [exists |-> FALSE, data |-> <<>>, mtime |-> 0, ro |-> FALSE]
File(data, mtime, ro) == [exists |-> TRUE, data |-> data, mtime |-> mtime, ro |-> ro]
NoTmp == [exists |-> FALSE, dir |-> "", data |-> <<>>, mtime |-> 0, ro |-> FALSE]
NoDir == [exists |-> FALSE, mtime |-> 0]
Dir(mtime) == [exists |-> TRUE, mtime |-> mtime]
NoWork == [exists |-> FALSE, made_by |-> "", files |-> {}]
NoStamp == [exists |-> FALSE, mtime |-> 0, content |-> {}]
NoArgs == NewArgs("", <<>>, <<>>)
NoId == <<>>
Unset == [set |-> FALSE, mtime |-> None]

Idle ==
  [ a |-> NoArgs, id |-> NoId, name |-> "", reason |-> PNone,
    prev_mtime |-> None, prev_nodes |-> {},
    todo |-> {}, processed |-> {}, seen |-> {}, fresh |-> FALSE, buf |-> <<>>,
    metadata |-> PNone, cls_name |-> PNone, orig_cls_name |-> PNone, body_offset |-> 0 ]

\* a, wrote, seen, fresh and calls are history: the arguments of a Node.new
\* call and whether it wrote the node file; the nodes that were stored when an
\* index call began, and whether the process then had no stamp mtime cached;
\* the set_tag calls made on the name before a tag or tag_reflog call.
\* detail is what the message of an exception names, cls the class of the
\* node a get returned.
NoResult ==
  [ op |-> "", kind |-> "none", id |-> NoId, metadata |-> PNone, entries |-> <<>>,
    error |-> "", a |-> NoArgs, wrote |-> FALSE, seen |-> {}, fresh |-> FALSE,
    name |-> "", calls |-> <<>>, detail |-> <<>>, cls |-> "" ]

\* A process that is in no call of a memoized function.  found is the list
\* the wrapper built; matching, before and ran are history: the stored nodes
\* that matched the arguments when the call began, whether a call with equal
\* arguments had completed before it, and whether it executed the function.
\* code, test_code and cmd are the arguments.
NoCall ==
  [ stage |-> "idle", code |-> <<>>, test_code |-> <<>>, cmd |-> "", outcome |-> "none",
    id |-> NoId, error |-> "",
    found |-> <<>>, matching |-> {}, before |-> FALSE, ran |-> FALSE ]
\* A process that is in no call of run_rewrite, render, do_transpile or
\* do_main.  fn is the function and stage the point it has reached; the other
\* fields are its locals, and three are history: made, the classes of the nodes
\* the call created; tag_before, the set_tag calls made on the tag it moves
\* before it began; n_op_check, whether the last cargo check of n_new_code
\* passed.
NoFrame ==
  [ fn |-> "", stage |-> "idle", input |-> NoId, glob_filter |-> None, output |-> <<>>,
    blocks |-> <<>>, short_path_map |-> {}, output_files |-> PNone, output_code |-> NoId,
    raw_prompt |-> NoId, request |-> NoId, response |-> NoId, n_op |-> NoId,
    trees |-> <<>>, ops |-> <<>>, outcome |-> "none", error |-> "", made |-> {},
    tag_before |-> <<>>,
    n_c_code |-> NoId, n_code |-> NoId, n_new_code |-> NoId, attempt |-> 0,
    safety_try |-> 0, repair_try |-> 0, n_op_check |-> "none", c_code |-> NoId ]

Returned(op, id, metadata) ==
  [NoResult EXCEPT !.op = op, !.kind = "node", !.id = id, !.metadata = metadata]
Raised(op, id, error) ==
  [NoResult EXCEPT !.op = op, !.kind = "error", !.id = id, !.error = error]

Stored == {id \in AllIds : nodes[id].exists}

\* The state when the processes start, with the nodes of `stored` in the
\* store (written at time 0, the nodes stamp touched before them) and nothing
\* else.
InitWith(stored) ==
  /\ now = 0
  /\ nodes = [id \in AllIds |->
               IF \E a \in stored : NodeIdOf(a) = id
               THEN File(NodeBytes(NewMetadata(CHOOSE a \in stored : NodeIdOf(a) = id),
                                   (CHOOSE a \in stored : NodeIdOf(a) = id).body), 0, TRUE)
               ELSE NoFile]
  /\ dirs = [d \in Shards |->
              IF \E a \in stored : ShardOf(NodeIdOf(a)) = d THEN Dir(0) ELSE NoDir]
  /\ tmp = [p \in Procs |-> NoTmp]
  /\ orphans = {}
  /\ stamps = [n \in StampNames |->
                IF n = "nodes" /\ stored # {} THEN [NoStamp EXCEPT !.exists = TRUE]
                ELSE NoStamp]
  /\ index = [id \in AllIds |-> <<>>]
  /\ tags = [n \in TagNames |-> NoFile]
  /\ pc = [p \in Procs |-> "idle"]
  /\ loc = [p \in Procs |-> Idle]
  /\ nodeCache = [p \in Procs |-> {}]
  /\ stampCache = [p \in Procs |-> [n \in StampNames |-> Unset]]
  /\ result = [p \in Procs |-> NoResult]
  /\ crashes = 0
  /\ memo = [p \in Procs |-> NoCall]
  /\ tagCalls = [n \in TagNames |-> <<>>]
  /\ completed = {}
  /\ work = NoWork
  /\ KEEP_WORK_DIR = [p \in Procs |-> FALSE]
  /\ frame = [p \in Procs |-> NoFrame]
  /\ registry = [p \in Procs |-> NODE_MIGRATION_MAP]

\* The state after construction: an empty store.
Init == InitWith({})

\* The clock never goes backwards, and need not advance between operations.
Tick ==
  /\ now < MaxTime
  /\ now' = now + 1
  /\ UNCHANGED << disk, pc, loc, nodeCache, stampCache, result, crashes, work, KEEP_WORK_DIR, frame, memo, tagCalls,
                  completed, registry >>

\* mvir._nodes: node_id in mvir._nodes, mvir._nodes[node_id], and
\* mvir._nodes[node_id] = n.
InCache(p, id) == \E n \in nodeCache[p] : n.id = id
CacheGet(p, id) == (CHOOSE n \in nodeCache[p] : n.id = id).metadata
CachePut(c, id, metadata) ==
  {n \in c : n.id # id} \cup {[id |-> id, metadata |-> metadata]}

(***************************************************************************)
(* Node.new and Node._create.                                              *)
(***************************************************************************)
\* _touch_stamp(name, content): open(path, 'wb') and write the content.
_touch_stamp(st, name, content) ==
  [st EXCEPT ![name] = [exists |-> TRUE, mtime |-> now, content |-> content]]

\* self._stamp_mtime_cache.pop(name, None)
PopStamp(sc, name) == [sc EXCEPT ![name] = Unset]

\* Faulty variant, for comparison: _create never finds the file and always writes.
PathExists_Never(node_id) == FALSE

\* os.path.exists(path) in _create
PathExists(node_id) == nodes[node_id].exists

\* Node.new up to the end of the look-ups of _create: the schema check, the
\* digest, mvir._nodes, os.path.exists(path).
CreateCheck(p, a) ==
  /\ pc[p] = "idle"
  /\ LET metadata == NewMetadata(a)
         chk == _check_metadata(a.cls, metadata)
         node_id == Sha256(NodeBytes(metadata, a.body))
     IN  IF chk # "ok"
         THEN /\ result' = [result EXCEPT ![p] =
                             [Raised("create", node_id, chk) EXCEPT !.a = a]]
              /\ UNCHANGED << pc, loc, nodeCache >>
         ELSE IF InCache(p, node_id)
         THEN /\ result' = [result EXCEPT ![p] =
                             [Returned("create", node_id, CacheGet(p, node_id))
                                EXCEPT !.a = a]]
              /\ UNCHANGED << pc, loc, nodeCache >>
         ELSE IF PathExists(node_id)
         THEN \* No need to write if the file already exists.
              /\ nodeCache' = [nodeCache EXCEPT ![p] = CachePut(@, node_id, metadata)]
              /\ result' = [result EXCEPT ![p] =
                             [Returned("create", node_id, metadata) EXCEPT !.a = a]]
              /\ UNCHANGED << pc, loc >>
         ELSE /\ pc' = [pc EXCEPT ![p] = "touch"]
              /\ loc' = [loc EXCEPT ![p] = [Idle EXCEPT !.a = a, !.id = node_id]]
              /\ result' = [result EXCEPT ![p] = NoResult]
              /\ UNCHANGED nodeCache
  /\ UNCHANGED << now, registry, disk, stampCache, crashes, work, KEEP_WORK_DIR, frame, memo, tagCalls, completed >>

\* mvir._touch_stamp('nodes'), before the node is written.
CreateTouch(p) ==
  /\ pc[p] = "touch"
  /\ stamps' = _touch_stamp(stamps, "nodes", {})
  /\ stampCache' = [stampCache EXCEPT ![p] = PopStamp(@, "nodes")]
  /\ pc' = [pc EXCEPT ![p] = "mkstemp"]
  /\ UNCHANGED << now, registry, nodes, dirs, tmp, orphans, index, tags, loc, nodeCache, result, crashes, work, KEEP_WORK_DIR, frame, memo, tagCalls, completed >>

\* Faulty variant, for comparison: a fixed temp name per node instead of mkstemp, so that a second
\* writer of the same node opens, and truncates, the file of the first.
CreateMkstemp_FixedName(p) ==
  /\ pc[p] = "mkstemp"
  /\ dirs' = [dirs EXCEPT ![ShardOf(loc[p].id)] = Dir(now)]
  /\ tmp' = [o \in Procs |->
               IF o = p
               THEN [exists |-> TRUE, dir |-> ShardOf(loc[p].id), data |-> <<>>,
                     mtime |-> now, ro |-> FALSE]
               ELSE IF tmp[o].exists /\ loc[o].id = loc[p].id
               THEN [tmp[o] EXCEPT !.data = <<>>, !.mtime = now]
               ELSE tmp[o]]
  /\ pc' = [pc EXCEPT ![p] = "write_meta"]
  /\ UNCHANGED << now, registry, nodes, orphans, stamps, index, tags, loc, nodeCache,
                  stampCache, result, crashes, work, KEEP_WORK_DIR, frame, memo, tagCalls, completed >>

\* os.makedirs(dir_path, exist_ok=True); tempfile.mkstemp(dir=dir_path)
CreateMkstemp(p) ==
  /\ pc[p] = "mkstemp"
  /\ dirs' = [dirs EXCEPT ![ShardOf(loc[p].id)] = Dir(now)]
  /\ tmp' = [tmp EXCEPT ![p] =
               [exists |-> TRUE, dir |-> ShardOf(loc[p].id), data |-> <<>>,
                mtime |-> now, ro |-> FALSE]]
  /\ pc' = [pc EXCEPT ![p] = "write_meta"]
  /\ UNCHANGED << now, registry, nodes, orphans, stamps, index, tags, loc, nodeCache,
                  stampCache, result, crashes, work, KEEP_WORK_DIR, frame, memo, tagCalls, completed >>

\* Faulty variant, for comparison: the node is written at its final path, not to a temp file.
CreateWriteMeta_AtFinalPath(p) ==
  /\ pc[p] = "write_meta"
  /\ nodes' = [nodes EXCEPT ![loc[p].id] =
                 File(MetaBytes(NewMetadata(loc[p].a)), now, FALSE)]
  /\ tmp' = [tmp EXCEPT ![p].data = @ \o MetaBytes(NewMetadata(loc[p].a)),
                        ![p].mtime = now]
  /\ pc' = [pc EXCEPT ![p] = "write_body"]
  /\ UNCHANGED << now, registry, dirs, orphans, stamps, index, tags, loc, nodeCache,
                  stampCache, result, crashes, work, KEEP_WORK_DIR, frame, memo, tagCalls, completed >>

\* f.write(meta_bytes)
CreateWriteMeta(p) ==
  /\ pc[p] = "write_meta"
  /\ tmp' = [tmp EXCEPT ![p].data = @ \o MetaBytes(NewMetadata(loc[p].a)),
                        ![p].mtime = now]
  /\ pc' = [pc EXCEPT ![p] = "write_body"]
  /\ UNCHANGED << now, registry, nodes, dirs, orphans, stamps, index, tags, loc, nodeCache,
                  stampCache, result, crashes, work, KEEP_WORK_DIR, frame, memo, tagCalls, completed >>

\* f.write(body), and the file is closed
CreateWriteBody(p) ==
  /\ pc[p] = "write_body"
  /\ tmp' = [tmp EXCEPT ![p].data = @ \o RawBytes(loc[p].a.body), ![p].mtime = now]
  /\ pc' = [pc EXCEPT ![p] = "chmod"]
  /\ UNCHANGED << now, registry, nodes, dirs, orphans, stamps, index, tags, loc, nodeCache,
                  stampCache, result, crashes, work, KEEP_WORK_DIR, frame, memo, tagCalls, completed >>

\* os.chmod(tmp_path, 0o444)
CreateChmod(p) ==
  /\ pc[p] = "chmod"
  /\ tmp' = [tmp EXCEPT ![p].ro = TRUE]
  /\ pc' = [pc EXCEPT ![p] = "rename"]
  /\ UNCHANGED << now, registry, nodes, dirs, orphans, stamps, index, tags, loc, nodeCache,
                  stampCache, result, crashes, work, KEEP_WORK_DIR, frame, memo, tagCalls, completed >>

\* What os.rename(tmp_path, path) leaves at path: the temp file, whatever was
\* at path before.
Renamed(t) == File(t.data, t.mtime, t.ro)

\* os.rename(tmp_path, path); then the node is put in mvir._nodes and returned.
CreateRename(p) ==
  /\ pc[p] = "rename"
  /\ nodes' = [nodes EXCEPT ![loc[p].id] = Renamed(tmp[p])]
  /\ dirs' = [dirs EXCEPT ![tmp[p].dir] = Dir(now)]
  /\ tmp' = [tmp EXCEPT ![p] = NoTmp]
  /\ nodeCache' = [nodeCache EXCEPT ![p] = CachePut(@, loc[p].id, NewMetadata(loc[p].a))]
  /\ result' = [result EXCEPT ![p] =
                  [Returned("create", loc[p].id, NewMetadata(loc[p].a))
                     EXCEPT !.a = loc[p].a, !.wrote = TRUE]]
  /\ pc' = [pc EXCEPT ![p] = "idle"]
  /\ loc' = [loc EXCEPT ![p] = Idle]
  /\ UNCHANGED << now, registry, orphans, stamps, index, tags, stampCache, crashes, work, KEEP_WORK_DIR, frame, memo, tagCalls, completed >>

\* Faulty variant, for comparison: the node is put in mvir._nodes before the write is known to
\* have succeeded, so that it stays there when the write raises.
CreateFail_Publishing(p) ==
  /\ pc[p] \in {"write_meta", "write_body", "chmod", "rename"}
  /\ tmp' = [tmp EXCEPT ![p] = NoTmp]
  /\ dirs' = [dirs EXCEPT ![tmp[p].dir] = Dir(now)]
  /\ nodeCache' = [nodeCache EXCEPT ![p] = CachePut(@, loc[p].id, NewMetadata(loc[p].a))]
  /\ result' = [result EXCEPT ![p] = Raised("create", loc[p].id, "OSError")]
  /\ pc' = [pc EXCEPT ![p] = "idle"]
  /\ loc' = [loc EXCEPT ![p] = Idle]
  /\ UNCHANGED << now, registry, nodes, orphans, stamps, index, tags, stampCache, crashes, work, KEEP_WORK_DIR, frame, memo, tagCalls, completed >>

\* A write, the chmod or the rename raises (say OSError): the finally clause
\* unlinks the temp file and the exception leaves _create.
CreateFail(p) ==
  /\ pc[p] \in {"write_meta", "write_body", "chmod", "rename"}
  /\ tmp' = [tmp EXCEPT ![p] = NoTmp]
  /\ dirs' = [dirs EXCEPT ![tmp[p].dir] = Dir(now)]
  /\ result' = [result EXCEPT ![p] = Raised("create", loc[p].id, "OSError")]
  /\ pc' = [pc EXCEPT ![p] = "idle"]
  /\ loc' = [loc EXCEPT ![p] = Idle]
  /\ UNCHANGED << now, registry, nodes, orphans, stamps, index, tags, nodeCache, stampCache, crashes, work, KEEP_WORK_DIR, frame, memo, tagCalls, completed >>

Create(p, inputs) ==
  \/ \E a \in inputs : CreateCheck(p, a)
  \/ CreateTouch(p)
  \/ CreateMkstemp(p)
  \/ CreateWriteMeta(p)
  \/ CreateWriteBody(p)
  \/ CreateChmod(p)
  \/ CreateRename(p)
  \/ CreateFail(p)

\* The process dies (at any point of a call, or between calls) and a new one
\* starts with an empty memory; a temp file it held stays in its directory.
Crash(p) ==
  /\ crashes < MaxCrashes
  /\ crashes' = crashes + 1
  /\ UNCHANGED work
  /\ KEEP_WORK_DIR' = [KEEP_WORK_DIR EXCEPT ![p] = FALSE]
  /\ frame' = [frame EXCEPT ![p] = NoFrame]
  /\ orphans' = IF tmp[p].exists THEN orphans \cup {tmp[p].dir} ELSE orphans
  /\ tmp' = [tmp EXCEPT ![p] = NoTmp]
  /\ pc' = [pc EXCEPT ![p] = "idle"]
  /\ loc' = [loc EXCEPT ![p] = Idle]
  /\ nodeCache' = [nodeCache EXCEPT ![p] = {}]
  /\ stampCache' = [stampCache EXCEPT ![p] = [n \in StampNames |-> Unset]]
  /\ result' = [result EXCEPT ![p] = NoResult]
  /\ memo' = [memo EXCEPT ![p] = NoCall]
  /\ UNCHANGED << now, registry, nodes, dirs, stamps, index, tags, tagCalls, completed >>

(***************************************************************************)
(* Node._get (MVIR.node).                                                  *)
(***************************************************************************)
\* Faulty variant, for comparison: a file that does not decode is reported as a missing file.
Get_NotFoundForAll(p, node_id) ==
  /\ pc[p] = "idle"
  /\ IF InCache(p, node_id)
     THEN /\ result' = [result EXCEPT ![p] = Returned("get", node_id, CacheGet(p, node_id))]
          /\ UNCHANGED nodeCache
     ELSE IF ~nodes[node_id].exists \/ ~LoadNode(nodes[node_id].data).ok
     THEN /\ result' = [result EXCEPT ![p] = Raised("get", node_id, "FileNotFoundError")]
          /\ UNCHANGED nodeCache
     ELSE /\ nodeCache' = [nodeCache EXCEPT ![p] =
                             CachePut(@, node_id, LoadNode(nodes[node_id].data).metadata)]
          /\ result' = [result EXCEPT ![p] =
                          Returned("get", node_id, LoadNode(nodes[node_id].data).metadata)]
  /\ UNCHANGED << now, registry, disk, pc, loc, stampCache, crashes, work, KEEP_WORK_DIR, frame, memo, tagCalls, completed >>

Get(p, node_id) ==
  /\ pc[p] = "idle"
  /\ IF InCache(p, node_id)
     THEN /\ result' = [result EXCEPT ![p] = Returned("get", node_id, CacheGet(p, node_id))]
          /\ UNCHANGED nodeCache
     ELSE IF ~nodes[node_id].exists
     THEN /\ result' = [result EXCEPT ![p] = Raised("get", node_id, "FileNotFoundError")]
          /\ UNCHANGED nodeCache
     ELSE LET n == LoadNode(nodes[node_id].data)
          IN  IF ~n.ok
              THEN /\ result' = [result EXCEPT ![p] = Raised("get", node_id, n.error)]
                   /\ UNCHANGED nodeCache
              ELSE /\ nodeCache' = [nodeCache EXCEPT ![p] = CachePut(@, node_id, n.metadata)]
                   /\ result' = [result EXCEPT ![p] = Returned("get", node_id, n.metadata)]
  /\ UNCHANGED << now, registry, disk, pc, loc, stampCache, crashes, work, KEEP_WORK_DIR, frame, memo, tagCalls, completed >>

\* migration(old_kind)(f): the decorator registers f for old_kind.
Migration(p, old_kind, f) ==
  /\ pc[p] = "idle"
  /\ IF old_kind \in DOMAIN registry[p]
     THEN /\ result' = [result EXCEPT ![p] = Raised("migration", NoId, "AssertionError")]
          /\ UNCHANGED registry
     ELSE /\ registry' = [registry EXCEPT ![p] = (old_kind :> f) @@ @]
          /\ result' = [result EXCEPT ![p] = NoResult]
  /\ UNCHANGED << now, disk, pc, loc, nodeCache, stampCache, crashes, work, KEEP_WORK_DIR, frame, memo, tagCalls, completed >>

\* _get up to the while loop: the cache look-up, the read of the metadata,
\* and metadata.get('kind').
GetOpen(p, node_id) ==
  /\ pc[p] = "idle"
  /\ LET r == cbor_load(nodes[node_id].data, 1)
         raw == PDict([i \in DOMAIN r.val.v |-> <<r.val.v[i].v[1], r.val.v[i].v[2]>>])
         Fail(error) ==
           /\ result' = [result EXCEPT ![p] = Raised("get", node_id, error)]
           /\ UNCHANGED << pc, loc >>
     IN  IF InCache(p, node_id)
         THEN /\ result' = [result EXCEPT ![p] =
                             [Returned("get", node_id, CacheGet(p, node_id)) EXCEPT !.cls =
                                NODE_KIND_MAP[DictGet(CacheGet(p, node_id), "kind").v]]]
              /\ UNCHANGED << pc, loc >>
         ELSE IF ~nodes[node_id].exists THEN Fail("FileNotFoundError")
         ELSE IF ~r.ok THEN Fail("malformed: cbor.load")
         ELSE IF ~IsPairList(r.val) THEN Fail("malformed: not a list of pairs")
         ELSE IF ~HasKey(raw, "kind") THEN Fail("KeyError: missing kind")
         ELSE /\ pc' = [pc EXCEPT ![p] = "resolve"]
              /\ loc' = [loc EXCEPT ![p] =
                           [Idle EXCEPT !.id = node_id, !.metadata = raw,
                                        !.cls_name = DictGet(raw, "kind"),
                                        !.orig_cls_name = DictGet(raw, "kind"),
                                        !.body_offset = r.next - 1]]
              /\ result' = [result EXCEPT ![p] = NoResult]
  /\ UNCHANGED << now, registry, disk, nodeCache, stampCache, crashes, work, KEEP_WORK_DIR, frame, memo, tagCalls, completed >>

\* One turn of the while loop of _get: the loop goes on with the migrated
\* metadata.
GetMigrate(p) ==
  /\ pc[p] = "resolve"
  /\ LET s == KindStep(registry[p], loc[p].metadata, loc[p].cls_name, loc[p].orig_cls_name)
     IN  /\ ~s.done
         /\ loc' = [loc EXCEPT ![p].metadata = s.metadata, ![p].cls_name = s.cls_name]
  /\ UNCHANGED << now, registry, disk, pc, nodeCache, stampCache, result, crashes, work, KEEP_WORK_DIR, frame, memo,
                  tagCalls, completed >>

\* The while loop of _get ends: with an exception, or with the class, and
\* then the metadata is decoded, and the node is put in mvir._nodes and returned.
GetFinish(p) ==
  /\ pc[p] = "resolve"
  /\ LET s == KindStep(registry[p], loc[p].metadata, loc[p].cls_name, loc[p].orig_cls_name)
         n == IF s.r.ok THEN Decode(s.r.cls, s.r.metadata, loc[p].body_offset) ELSE s.r
     IN  /\ s.done
         /\ IF n.ok
            THEN /\ nodeCache' = [nodeCache EXCEPT ![p] = CachePut(@, loc[p].id, n.metadata)]
                 /\ result' = [result EXCEPT ![p] =
                                 [Returned("get", loc[p].id, n.metadata) EXCEPT !.cls = n.cls]]
            ELSE /\ result' = [result EXCEPT ![p] =
                                 [Raised("get", loc[p].id, n.error) EXCEPT !.detail = n.detail]]
                 /\ UNCHANGED nodeCache
  /\ pc' = [pc EXCEPT ![p] = "idle"]
  /\ loc' = [loc EXCEPT ![p] = Idle]
  /\ UNCHANGED << now, registry, disk, stampCache, crashes, work, KEEP_WORK_DIR, frame, memo, tagCalls, completed >>

(***************************************************************************)
(* MVIR.index: _check_index, _update_index, and the read of the shard.     *)
(***************************************************************************)
\* _stamp_mtime(name): the cached value when there is one, else the mtime of
\* the stamp file, or None when it does not exist.
_stamp_mtime(p, name) ==
  IF stampCache[p][name].set THEN stampCache[p][name].mtime
  ELSE IF stamps[name].exists THEN Some(stamps[name].mtime)
  ELSE None

\* The test of _check_index.
NeedsUpdate(index_mtime, nodes_mtime) ==
  ~index_mtime.some \/ (nodes_mtime.some /\ nodes_mtime.t >= index_mtime.t)

\* Faulty variant, for comparison: a file whose mtime equals mtime is taken to be older.
_nodes_newer_than_Strict(mtime) ==
  { id \in AllIds :
      /\ nodes[id].exists
      /\ mtime.some => /\ ~(dirs[ShardOf(id)].mtime < mtime.t)
                       /\ nodes[id].mtime > mtime.t }

\* _nodes_newer_than(mtime): the nodes whose directory and whose file are not
\* older than mtime, all nodes when mtime is None.  Names that are no NodeId
\* (temp files) are passed over with a warning.
_nodes_newer_than(mtime) ==
  { id \in AllIds :
      /\ nodes[id].exists
      /\ mtime.some => /\ ~(dirs[ShardOf(id)].mtime < mtime.t)
                       /\ ~(nodes[id].mtime < mtime.t) }

\* An exception that leaves index(node_id).
IndexRaised(p, error) ==
  [Raised("index", loc[p].id, error) EXCEPT !.seen = loc[p].seen, !.fresh = loc[p].fresh]

\* index(node_id) begins: _check_index reads the two stamp mtimes.
QueryCheck(p, node_id) ==
  /\ pc[p] = "idle"
  /\ LET index_mtime == _stamp_mtime(p, "index")
         nodes_mtime == _stamp_mtime(p, "nodes")
         l == [Idle EXCEPT !.id = node_id, !.prev_mtime = index_mtime, !.seen = Stored,
                           !.fresh = \A n \in StampNames : ~stampCache[p][n].set]
     IN  /\ stampCache' = [stampCache EXCEPT ![p] =
                             [index |-> [set |-> TRUE, mtime |-> index_mtime],
                              nodes |-> [set |-> TRUE, mtime |-> nodes_mtime]]]
         /\ loc' = [loc EXCEPT ![p] = l]
         /\ pc' = [pc EXCEPT ![p] =
                     IF NeedsUpdate(index_mtime, nodes_mtime) THEN "upd_scan"
                     ELSE "read_shard"]
  /\ result' = [result EXCEPT ![p] = NoResult]
  /\ UNCHANGED << now, registry, disk, nodeCache, crashes, work, KEEP_WORK_DIR, frame, memo, tagCalls, completed >>

\* _update_index begins: _read_stamp('index'), and the scan of nodes/, which
\* raises FileNotFoundError when the directory does not exist.
UpdScan(p) ==
  /\ pc[p] = "upd_scan"
  /\ IF \A d \in Shards : ~dirs[d].exists
     THEN /\ result' = [result EXCEPT ![p] = IndexRaised(p, "FileNotFoundError")]
          /\ pc' = [pc EXCEPT ![p] = "idle"]
          /\ loc' = [loc EXCEPT ![p] = Idle]
     ELSE /\ loc' = [loc EXCEPT ![p].prev_nodes = stamps["index"].content,
                                ![p].todo = _nodes_newer_than(loc[p].prev_mtime),
                                ![p].processed = _nodes_newer_than(loc[p].prev_mtime)]
          /\ pc' = [pc EXCEPT ![p] = "upd_node"]
          /\ UNCHANGED result
  /\ UNCHANGED << now, registry, disk, nodeCache, stampCache, crashes, work, KEEP_WORK_DIR, frame, memo, tagCalls, completed >>

\* Faulty variant, for comparison: a node the previous update processed is indexed again.
UpdNode_NoSkip(p, src_id) ==
  /\ pc[p] = "upd_node"
  /\ src_id \in loc[p].todo
  /\ LET n == IF InCache(p, src_id)
              THEN [LoadError("") EXCEPT !.ok = TRUE, !.metadata = CacheGet(p, src_id)]
              ELSE LoadNode(nodes[src_id].data)
     IN  IF FALSE
         THEN /\ loc' = [loc EXCEPT ![p].todo = @ \ {src_id}]
              /\ UNCHANGED << index, nodeCache, pc, result >>
         ELSE IF ~n.ok
         THEN /\ result' = [result EXCEPT ![p] = IndexRaised(p, n.error)]
              /\ pc' = [pc EXCEPT ![p] = "idle"]
              /\ loc' = [loc EXCEPT ![p] = Idle]
              /\ UNCHANGED << index, nodeCache >>
         ELSE /\ index' = AppendRefs(index, NodeRefs(src_id, n.metadata))
              /\ nodeCache' = [nodeCache EXCEPT ![p] = CachePut(@, src_id, n.metadata)]
              /\ loc' = [loc EXCEPT ![p].todo = @ \ {src_id}]
              /\ UNCHANGED << pc, result >>
  /\ UNCHANGED << now, registry, nodes, dirs, tmp, orphans, stamps, tags, stampCache, crashes, work, KEEP_WORK_DIR, frame, memo, tagCalls, completed >>

\* One turn of the loop of _update_index: a node the previous update
\* processed is skipped; any other is loaded and its references are appended
\* to the index files of the nodes it names.
UpdNode(p, src_id) ==
  /\ pc[p] = "upd_node"
  /\ src_id \in loc[p].todo
  /\ LET n == IF InCache(p, src_id)
              THEN [LoadError("") EXCEPT !.ok = TRUE, !.metadata = CacheGet(p, src_id)]
              ELSE LoadNode(nodes[src_id].data)
     IN  IF src_id \in loc[p].prev_nodes
         THEN /\ loc' = [loc EXCEPT ![p].todo = @ \ {src_id}]
              /\ UNCHANGED << index, nodeCache, pc, result >>
         ELSE IF ~n.ok
         THEN /\ result' = [result EXCEPT ![p] = IndexRaised(p, n.error)]
              /\ pc' = [pc EXCEPT ![p] = "idle"]
              /\ loc' = [loc EXCEPT ![p] = Idle]
              /\ UNCHANGED << index, nodeCache >>
         ELSE /\ index' = AppendRefs(index, NodeRefs(src_id, n.metadata))
              /\ nodeCache' = [nodeCache EXCEPT ![p] = CachePut(@, src_id, n.metadata)]
              /\ loc' = [loc EXCEPT ![p].todo = @ \ {src_id}]
              /\ UNCHANGED << pc, result >>
  /\ UNCHANGED << now, registry, nodes, dirs, tmp, orphans, stamps, tags, stampCache, crashes, work, KEEP_WORK_DIR, frame, memo, tagCalls, completed >>

\* _update_index ends: _touch_stamp('index', processed_nodes).
UpdTouch(p) ==
  /\ pc[p] = "upd_node"
  /\ loc[p].todo = {}
  /\ stamps' = _touch_stamp(stamps, "index", loc[p].processed)
  /\ stampCache' = [stampCache EXCEPT ![p] = PopStamp(@, "index")]
  /\ pc' = [pc EXCEPT ![p] = "read_shard"]
  /\ UNCHANGED << now, registry, nodes, dirs, tmp, orphans, index, tags, loc, nodeCache, result, crashes, work, KEEP_WORK_DIR, frame, memo, tagCalls, completed >>

\* index(node_id) ends: the entries of the shard file, () when it is absent.
QueryRead(p) ==
  /\ pc[p] = "read_shard"
  /\ result' = [result EXCEPT ![p] =
                  [NoResult EXCEPT !.op = "index", !.kind = "entries", !.id = loc[p].id,
                                   !.entries = ReadIndexFile(index[loc[p].id], 1),
                                   !.seen = loc[p].seen, !.fresh = loc[p].fresh]]
  /\ pc' = [pc EXCEPT ![p] = "idle"]
  /\ loc' = [loc EXCEPT ![p] = Idle]
  /\ UNCHANGED << now, registry, disk, nodeCache, stampCache, crashes, work, KEEP_WORK_DIR, frame, memo, tagCalls, completed >>

Query(p, targets) ==
  \/ \E node_id \in targets : QueryCheck(p, node_id)
  \/ UpdScan(p)
  \/ \E src_id \in AllIds : UpdNode(p, src_id)
  \/ UpdTouch(p)
  \/ QueryRead(p)

(***************************************************************************)
(* Tags: set_tag, tag, tag_reflog.                                         *)
(***************************************************************************)
\* datetime.now()
DatetimeNow == PDatetime(<<2026, 11, 3, 12, 0, 0, now>>)

ReflogEntry(node_id, timestamp, reason) ==
  [node_id |-> node_id, timestamp |-> timestamp, reason |-> reason]

\* Faulty variant, for comparison: the tag file is opened with 'wb', which truncates it.
set_tag_Truncating(name, node_id, reason) ==
  [tags EXCEPT ![name] =
     File(cbor_dumps(to_cbor(PTuple(<<DatetimeNow, reason>>))) \o RawBytes(node_id),
          now, FALSE)]

\* Faulty variant, for comparison: the record is appended to every tag file.
set_tag_EveryTag(name, node_id, reason) ==
  [n \in TagNames |->
     File(tags[n].data \o cbor_dumps(to_cbor(PTuple(<<DatetimeNow, reason>>)))
                       \o RawBytes(node_id),
          now, FALSE)]

\* set_tag: the tag files after the append of cbor([timestamp, reason]) and
\* of node_id.raw to tags/<name>.
set_tag(name, node_id, reason) ==
  [tags EXCEPT ![name] =
     File(@.data \o cbor_dumps(to_cbor(PTuple(<<DatetimeNow, reason>>)))
                 \o RawBytes(node_id),
          now, FALSE)]

\* The bytes of the tokens data[from..to], when they are raw bytes.
BytesAt(data, from, to) == [i \in 1..(to - from + 1) |-> data[from + i - 1].v]

\* tag: seek(-NodeId.LENGTH, os.SEEK_END); NodeId(f.read(NodeId.LENGTH))
tag(name) ==
  LET data == tags[name].data
  IN  BytesAt(data, Len(data) - LENGTH + 1, Len(data))

\* The loop of tag_reflog from offset pos: [ok, entries].
RECURSIVE ReadReflog(_, _)
ReadReflog(data, pos) ==
  IF pos > Len(data) THEN [ok |-> TRUE, entries |-> <<>>]
  ELSE LET item == cbor_load(data, pos)
           rec == from_cbor(TTuple(<<TDatetime, TAny>>), item.val)
           end == item.next + LENGTH - 1
       IN  IF ~item.ok \/ ~rec.ok \/ end > Len(data)
           THEN [ok |-> FALSE, entries |-> <<>>]
           ELSE LET rest == ReadReflog(data, end + 1)
                    e == ReflogEntry(BytesAt(data, item.next, end),
                                     rec.val.v[1], rec.val.v[2])
                IN  [ok |-> rest.ok, entries |-> <<e>> \o rest.entries]

\* mvir.set_tag(name, node_id, reason)
SetTag(p, name, node_id, reason) ==
  /\ pc[p] = "idle"
  /\ Len(tagCalls[name]) < MaxLog
  /\ tags' = set_tag(name, node_id, reason)
  /\ tagCalls' = [tagCalls EXCEPT ![name] =
                    Append(@, [node_id |-> node_id, reason |-> reason])]
  /\ result' = [result EXCEPT ![p] = [NoResult EXCEPT !.op = "set_tag", !.name = name]]
  /\ UNCHANGED << now, registry, nodes, dirs, tmp, orphans, stamps, index, pc, loc, nodeCache,
                  stampCache, crashes, work, KEEP_WORK_DIR, frame, memo, completed >>

\* mvir.tag(name)
Tag(p, name) ==
  /\ pc[p] = "idle"
  /\ result' = [result EXCEPT ![p] =
       IF ~tags[name].exists
       THEN [Raised("tag", NoId, "FileNotFoundError") EXCEPT !.name = name]
       ELSE IF Len(tags[name].data) < LENGTH
       THEN \* f.seek to before the start of the file
            [Raised("tag", NoId, "OSError") EXCEPT !.name = name]
       ELSE [NoResult EXCEPT !.op = "tag", !.kind = "node_id", !.id = tag(name),
                             !.name = name, !.calls = tagCalls[name]]]
  /\ UNCHANGED << now, registry, disk, pc, loc, nodeCache, stampCache, crashes, work, KEEP_WORK_DIR, frame, memo, tagCalls, completed >>

\* mvir.tag_reflog(name)
TagReflog(p, name) ==
  /\ pc[p] = "idle"
  /\ result' = [result EXCEPT ![p] =
       IF ~tags[name].exists
       THEN [Raised("tag_reflog", NoId, "FileNotFoundError") EXCEPT !.name = name]
       ELSE LET r == ReadReflog(tags[name].data, 1)
            IN  IF ~r.ok
                THEN [Raised("tag_reflog", NoId, "AssertionError")
                        EXCEPT !.name = name, !.calls = tagCalls[name]]
                ELSE [NoResult EXCEPT !.op = "tag_reflog", !.kind = "entries",
                                      !.entries = r.entries, !.name = name,
                                      !.calls = tagCalls[name]]]
  /\ UNCHANGED << now, registry, disk, pc, loc, nodeCache, stampCache, crashes, work, KEEP_WORK_DIR, frame, memo, tagCalls, completed >>

(***************************************************************************)
(* set_tag step by step, for the runs where several processes set tags:    *)
(* the file object of open(path, 'ab') is buffered, so what set_tag writes *)
(* stays in the process until the end of the with block, where the buffer  *)
(* (shorter than io.DEFAULT_BUFFER_SIZE) goes to the file in one write     *)
(* under O_APPEND.                                                         *)
(***************************************************************************)
\* open(path, 'ab'): the file is created, empty, when it does not exist.
SetTagOpen(p, name, node_id, reason) ==
  /\ pc[p] = "idle"
  /\ Len(tagCalls[name]) < MaxLog
  /\ tags' = [tags EXCEPT ![name] = IF @.exists THEN @ ELSE File(<<>>, now, FALSE)]
  /\ loc' = [loc EXCEPT ![p] = [Idle EXCEPT !.name = name, !.id = node_id,
                                            !.reason = reason]]
  /\ pc' = [pc EXCEPT ![p] = "tag_dump"]
  /\ result' = [result EXCEPT ![p] = NoResult]
  /\ UNCHANGED << now, registry, nodes, dirs, tmp, orphans, stamps, index, nodeCache,
                  stampCache, crashes, work, KEEP_WORK_DIR, frame, memo, tagCalls, completed >>

\* timestamp = datetime.now(); cbor.dump(to_cbor((timestamp, reason)), f)
SetTagDump(p) ==
  /\ pc[p] = "tag_dump"
  /\ loc' = [loc EXCEPT ![p].buf =
                @ \o cbor_dumps(to_cbor(PTuple(<<DatetimeNow, loc[p].reason>>)))]
  /\ pc' = [pc EXCEPT ![p] = "tag_write"]
  /\ UNCHANGED << now, registry, disk, nodeCache, stampCache, result, crashes, work, KEEP_WORK_DIR, frame, memo, tagCalls, completed >>

\* f.write(node_id.raw)
SetTagWrite(p) ==
  /\ pc[p] = "tag_write"
  /\ loc' = [loc EXCEPT ![p].buf = @ \o RawBytes(loc[p].id)]
  /\ pc' = [pc EXCEPT ![p] = "tag_close"]
  /\ UNCHANGED << now, registry, disk, nodeCache, stampCache, result, crashes, work, KEEP_WORK_DIR, frame, memo, tagCalls, completed >>

\* Faulty variant, for comparison: the log is compacted to its last record.
SetTagClose_Compacting(p) ==
  /\ pc[p] = "tag_close"
  /\ tags' = [tags EXCEPT ![loc[p].name] = File(loc[p].buf, now, FALSE)]
  /\ tagCalls' = [tagCalls EXCEPT ![loc[p].name] =
                    Append(@, [node_id |-> loc[p].id, reason |-> loc[p].reason])]
  /\ result' = [result EXCEPT ![p] =
                  [NoResult EXCEPT !.op = "set_tag", !.name = loc[p].name]]
  /\ pc' = [pc EXCEPT ![p] = "idle"]
  /\ loc' = [loc EXCEPT ![p] = Idle]
  /\ UNCHANGED << now, registry, nodes, dirs, tmp, orphans, stamps, index, nodeCache,
                  stampCache, crashes, work, KEEP_WORK_DIR, frame, memo, completed >>

\* The with block ends: the buffer is appended to the file, which is closed.
SetTagClose(p) ==
  /\ pc[p] = "tag_close"
  /\ tags' = [tags EXCEPT ![loc[p].name] = File(@.data \o loc[p].buf, now, FALSE)]
  /\ tagCalls' = [tagCalls EXCEPT ![loc[p].name] =
                    Append(@, [node_id |-> loc[p].id, reason |-> loc[p].reason])]
  /\ result' = [result EXCEPT ![p] =
                  [NoResult EXCEPT !.op = "set_tag", !.name = loc[p].name]]
  /\ pc' = [pc EXCEPT ![p] = "idle"]
  /\ loc' = [loc EXCEPT ![p] = Idle]
  /\ UNCHANGED << now, registry, nodes, dirs, tmp, orphans, stamps, index, nodeCache,
                  stampCache, crashes, work, KEEP_WORK_DIR, frame, memo, completed >>

(***************************************************************************)
(* The analysis decorator (crisp/analysis.py), applied to run_tests.       *)
(***************************************************************************)
\* What the decorator reads off run_tests' signature.
node_type == "TestResultNode"
index_param_name == "code"
match_fields == {"code", "test_code", "cmd"}

\* The tree a direct call of run_tests passes, as code and as test_code.
CodeId == NodeIdOf(TreeA)
TestCodeId == NodeIdOf(TreeA)

\* bound.arguments of run_tests(cfg, mvir, code, test_code, cmd), with each
\* Node argument replaced by its node_id() as arg_matches does.
BoundArgs(code, test_code, cmd) ==
  [code |-> PNodeId(code), test_code |-> PNodeId(test_code), cmd |-> PStr(cmd)]

\* sb.run(cmd) after sb.checkout(code): the exit code of each command on each
\* tree (they are deterministic).  "c1" fails on the two-file tree TreeTwo
\* only, "c2" on every tree.
ExitCode(code, cmd) == IF cmd = "c1" /\ code # Digest(25) THEN 0 ELSE 1

\* The node run_tests creates.
RunTests(code, test_code, cmd) == TestResult(code, test_code, cmd, ExitCode(code, cmd))
RunTestsNode(cmd) == RunTests(CodeId, TestCodeId, cmd)

\* mvir.node(node_id) for a stored node: the metadata of the Node.
MvirNode(p, node_id) ==
  IF InCache(p, node_id) THEN CacheGet(p, node_id)
  ELSE LoadNode(nodes[node_id].data).metadata

\* Faulty variant, for comparison: the entry's kind is compared with the name of the class.
EntryMatches_ClassName(entry) ==
  entry.kind = node_type /\ entry.key = index_param_name

\* not (entry.kind != node_type.KIND or entry.key != index_param_name)
EntryMatches(entry) ==
  entry.kind = KIND(node_type) /\ entry.key = index_param_name

\* Faulty variant, for comparison: only the index key argument is compared.
arg_matches_KeyOnly(metadata, k, args) ==
  k # index_param_name \/ args[k] = DictGet(metadata, k)

\* arg_matches(n, k): value == getattr(n, k)
arg_matches(metadata, k, args) == args[k] = DictGet(metadata, k)

\* The list `found` of the wrapper: the node of each selected entry, in the
\* order of the entries, when all its match_fields equal the arguments.
Found(p, entries, args) ==
  LET Keep(entry) ==
        /\ EntryMatches(entry)
        /\ \A k \in match_fields : arg_matches(MvirNode(p, entry.node_id), k, args)
      NodeIds(kept) == [i \in DOMAIN kept |-> kept[i].node_id]
  IN  NodeIds(SelectSeq(entries, Keep))

\* Faulty variant, for comparison: the first of several matches is returned.
MemoBranch_FirstMatch(found) ==
  IF Len(found) >= 1 THEN "hit" ELSE "run"

\* if len(found) == 1 ... elif len(found) == 0 ... else
MemoBranch(found) ==
  IF Len(found) = 1 THEN "hit"
  ELSE IF Len(found) = 0 THEN "run"
  ELSE "ambiguous"

\* The stored nodes of the result kind whose match_fields equal the arguments.
StoredMatches(code, test_code, cmd) ==
  {id \in Stored :
     LET n == LoadNode(nodes[id].data)
     IN  /\ n.ok
         /\ n.cls = node_type
         /\ \A k \in match_fields : DictGet(n.metadata, k) = BoundArgs(code, test_code, cmd)[k]}

\* g(cfg, mvir, code, test_code, cmd) begins, as far as the wrapper's own
\* state goes; the caller holds the trees.
MemoEnter(p, code, test_code, cmd) ==
  /\ pc[p] = "idle"
  /\ memo[p].stage = "idle"
  /\ {code, test_code} \subseteq Stored
  /\ memo' = [memo EXCEPT ![p] =
                [NoCall EXCEPT !.stage = "lookup", !.code = code, !.test_code = test_code,
                               !.cmd = cmd,
                               !.matching = StoredMatches(code, test_code, cmd),
                               !.before = cmd \in completed]]
  /\ result' = [result EXCEPT ![p] = NoResult]

\* A direct call of run_tests on the tree.
MemoCall(p, cmd) ==
  /\ MemoEnter(p, CodeId, TestCodeId, cmd)
  /\ UNCHANGED << now, registry, disk, pc, loc, nodeCache, stampCache, crashes, work, KEEP_WORK_DIR, frame, tagCalls, completed >>

\* The loop over mvir.index(index_node_id) and the branch on len(found).
MemoMatch(p) ==
  /\ memo[p].stage = "lookup"
  /\ pc[p] = "idle"
  /\ result[p].op = "index"
  /\ IF result[p].kind = "error"
     THEN /\ memo' = [memo EXCEPT ![p].stage = "idle", ![p].outcome = "error",
                                  ![p].error = result[p].error]
          /\ UNCHANGED << nodeCache, completed >>
     ELSE \E found \in {Found(p, result[p].entries,
                                 BoundArgs(memo[p].code, memo[p].test_code, memo[p].cmd))} :
          \E branch \in {MemoBranch(found)} :
          LET entries == result[p].entries
              loaded == {entries[i].node_id : i \in {j \in DOMAIN entries :
                                                      EntryMatches(entries[j])}}
          IN  /\ nodeCache' = [nodeCache EXCEPT ![p] =
                     @ \cup {[id |-> id, metadata |-> MvirNode(p, id)] : id \in loaded}]
              /\ memo' = [memo EXCEPT ![p] =
                     CASE branch = "hit" ->
                            [@ EXCEPT !.stage = "idle", !.outcome = "node",
                                      !.id = found[1], !.found = found]
                       [] branch = "run" -> [@ EXCEPT !.stage = "run", !.found = found]
                       [] OTHER ->
                            [@ EXCEPT !.stage = "idle", !.outcome = "error",
                                      !.error = "ValueError", !.found = found]]
              /\ completed' = IF branch = "hit" THEN completed \cup {memo[p].cmd}
                              ELSE completed
  /\ UNCHANGED << now, registry, disk, pc, loc, stampCache, result, crashes, work, KEEP_WORK_DIR, frame, tagCalls >>

\* n = f(*args, **kwargs) begins: the sandbox runs cmd, and run_tests goes on
\* to TestResultNode.new.
MemoRun(p) ==
  /\ memo[p].stage = "run"
  /\ \A n \in TestTags : Len(tagCalls[n]) < MaxLog
  /\ memo' = [memo EXCEPT ![p].stage = "new", ![p].ran = TRUE]
  /\ result' = [result EXCEPT ![p] = NoResult]
  /\ UNCHANGED << now, registry, disk, pc, loc, nodeCache, stampCache, crashes, work, KEEP_WORK_DIR, frame, tagCalls, completed >>

\* TestResultNode.new has returned or raised; on return,
\* mvir.set_tag('test_results', n.node_id(), None).
MemoTagResults(p) ==
  /\ memo[p].stage = "new"
  /\ pc[p] = "idle"
  /\ result[p].op = "create"
  /\ IF result[p].kind = "error"
     THEN /\ memo' = [memo EXCEPT ![p].stage = "idle", ![p].outcome = "error",
                                  ![p].error = result[p].error]
          /\ UNCHANGED << tags, tagCalls >>
     ELSE /\ tags' = set_tag("test_results", result[p].id, PNone)
          /\ tagCalls' = [tagCalls EXCEPT !["test_results"] =
                            Append(@, [node_id |-> result[p].id, reason |-> PNone])]
          /\ memo' = [memo EXCEPT ![p].stage = "tagged", ![p].id = result[p].id]
  /\ UNCHANGED << now, registry, nodes, dirs, tmp, orphans, stamps, index, pc, loc, nodeCache,
                  stampCache, result, crashes, work, KEEP_WORK_DIR, frame, completed >>

\* if n.passed: mvir.set_tag('test_passed', ...); return n; then the
\* wrapper's assertions on n, and its return.
MemoReturn(p) ==
  /\ memo[p].stage = "tagged"
  /\ LET metadata == result[p].metadata
         passed == DictGet(metadata, "exit_code") = PInt(0)
         consistent == \A k \in match_fields :
                         arg_matches(metadata, k,
                                     BoundArgs(memo[p].code, memo[p].test_code, memo[p].cmd))
     IN  /\ IF passed
            THEN /\ tags' = set_tag("test_passed", memo[p].id, PNone)
                 /\ tagCalls' = [tagCalls EXCEPT !["test_passed"] =
                                   Append(@, [node_id |-> memo[p].id, reason |-> PNone])]
            ELSE UNCHANGED << tags, tagCalls >>
         /\ memo' = [memo EXCEPT ![p] =
                IF consistent
                THEN [@ EXCEPT !.stage = "idle", !.outcome = "node"]
                ELSE [@ EXCEPT !.stage = "idle", !.outcome = "error",
                               !.error = "AssertionError"]]
         /\ completed' = IF consistent THEN completed \cup {memo[p].cmd} ELSE completed
  /\ UNCHANGED << now, registry, nodes, dirs, tmp, orphans, stamps, index, pc, loc, nodeCache,
                  stampCache, result, crashes, work, KEEP_WORK_DIR, frame >>

\* The process ends between two calls and another one starts.
Exit(p) ==
  /\ pc[p] = "idle"
  /\ memo[p].stage = "idle"
  /\ frame[p].stage = "idle"
  /\ nodeCache' = [nodeCache EXCEPT ![p] = {}]
  /\ stampCache' = [stampCache EXCEPT ![p] = [n \in StampNames |-> Unset]]
  /\ result' = [result EXCEPT ![p] = NoResult]
  /\ memo' = [memo EXCEPT ![p] = NoCall]
  /\ KEEP_WORK_DIR' = [KEEP_WORK_DIR EXCEPT ![p] = FALSE]
  /\ frame' = [frame EXCEPT ![p] = NoFrame]
  /\ UNCHANGED << now, registry, disk, pc, loc, crashes, work, tagCalls, completed >>

(***************************************************************************)
(* The work directory: lock_work_dir and WorkDir.checkout_file.  made_by   *)
(* and the first component of each file are history: the process that      *)
(* made the directory, and the process that wrote the file.                *)
(***************************************************************************)
WorkFiles == {"x.rs", "y.rs"}

\* set_keep_work_dir(keep), as main calls it with --keep-work-dir before it
\* runs a command.
set_keep_work_dir(p, keep) ==
  /\ pc[p] = "idle"
  /\ memo[p].stage = "idle"
  /\ KEEP_WORK_DIR' = [KEEP_WORK_DIR EXCEPT ![p] = keep]
  /\ UNCHANGED frame
  /\ UNCHANGED << now, registry, disk, pc, loc, nodeCache, stampCache, result, crashes, work,
                  memo, tagCalls, completed >>

\* Faulty variant, for comparison: os.makedirs(work_dir, exist_ok=True).
LockAcquire_ExistOk(p) ==
  /\ pc[p] = "idle"
  /\ memo[p].stage = "idle"
  /\ work' = IF work.exists THEN work ELSE [exists |-> TRUE, made_by |-> p, files |-> {}]
  /\ pc' = [pc EXCEPT ![p] = "in_work_dir"]
  /\ result' = [result EXCEPT ![p] = NoResult]
  /\ UNCHANGED << now, registry, disk, loc, nodeCache, stampCache, crashes, KEEP_WORK_DIR, frame,
                  memo, tagCalls, completed >>

\* with lock_work_dir(cfg, mvir): os.makedirs(work_dir, exist_ok=False), which
\* raises FileExistsError before the try when the directory is there.
LockAcquire(p) ==
  /\ pc[p] = "idle"
  /\ memo[p].stage = "idle"
  /\ IF work.exists
     THEN /\ result' = [result EXCEPT ![p] = Raised("lock_work_dir", NoId, "FileExistsError")]
          /\ UNCHANGED << work, pc >>
     ELSE /\ work' = [exists |-> TRUE, made_by |-> p, files |-> {}]
          /\ pc' = [pc EXCEPT ![p] = "in_work_dir"]
          /\ result' = [result EXCEPT ![p] = NoResult]
  /\ UNCHANGED << now, registry, disk, loc, nodeCache, stampCache, crashes, KEEP_WORK_DIR, frame,
                  memo, tagCalls, completed >>

\* WorkDir.checkout_file(rel_path, n_file) in the body of the with statement.
checkout_file(p, rel_path) ==
  /\ pc[p] = "in_work_dir"
  /\ IF \E f \in work.files : f[2] = rel_path
     THEN /\ result' = [result EXCEPT ![p] =
                          [Raised("checkout_file", NoId, "AssertionError") EXCEPT !.name = rel_path]]
          /\ UNCHANGED work
     ELSE /\ work' = [work EXCEPT !.files = @ \cup {<<p, rel_path>>}]
          /\ result' = [result EXCEPT ![p] = [NoResult EXCEPT !.op = "checkout_file",
                                                             !.name = rel_path]]
  /\ UNCHANGED << now, registry, disk, pc, loc, nodeCache, stampCache, crashes, KEEP_WORK_DIR, frame,
                  memo, tagCalls, completed >>

\* Faulty variant, for comparison: the finally clause never removes the directory.
LockRelease_AlwaysKeep(p) ==
  /\ pc[p] = "in_work_dir"
  /\ pc' = [pc EXCEPT ![p] = "idle"]
  /\ UNCHANGED << now, registry, disk, loc, nodeCache, stampCache, result, crashes, work,
                  KEEP_WORK_DIR, frame, memo, tagCalls, completed >>

\* The with statement ends, because its body returned or raised: the
\* finally clause.  shutil.rmtree first deletes what the directory holds.
LockRelease(p) ==
  /\ pc[p] = "in_work_dir"
  /\ IF KEEP_WORK_DIR[p]
     THEN /\ pc' = [pc EXCEPT ![p] = "idle"]
          /\ UNCHANGED work
     ELSE /\ work' = [work EXCEPT !.files = {}]
          /\ pc' = [pc EXCEPT ![p] = "rmtree"]
  /\ UNCHANGED << now, registry, disk, loc, nodeCache, stampCache, result, crashes,
                  KEEP_WORK_DIR, frame, memo, tagCalls, completed >>

\* shutil.rmtree ends: os.rmdir(work_dir).
LockRmdir(p) ==
  /\ pc[p] = "rmtree"
  /\ work' = NoWork
  /\ pc' = [pc EXCEPT ![p] = "idle"]
  /\ UNCHANGED << now, registry, disk, loc, nodeCache, stampCache, result, crashes,
                  KEEP_WORK_DIR, frame, memo, tagCalls, completed >>

(***************************************************************************)
(* Hexadecimal names: NodeId.__str__, NodeId.from_str,                     *)
(* MVIR.node_ids_with_prefix and parse_node_id_arg_and_check_tag.  A str   *)
(* is the sequence of its characters.                                      *)
(***************************************************************************)
\* bytes.hex of one byte, for the bytes that occur in node ids.
HexOfByte ==
  "00" :> <<"0", "0">> @@ "01" :> <<"0", "1">> @@ "02" :> <<"0", "2">> @@ "07" :> <<"0", "7">> @@
  "09" :> <<"0", "9">> @@ "0b" :> <<"0", "b">> @@ "0d" :> <<"0", "d">> @@ "0f" :> <<"0", "f">> @@
  "10" :> <<"1", "0">> @@ "11" :> <<"1", "1">> @@ "12" :> <<"1", "2">> @@ "13" :> <<"1", "3">> @@
  "14" :> <<"1", "4">> @@ "18" :> <<"1", "8">> @@ "19" :> <<"1", "9">> @@ "21" :> <<"2", "1">> @@
  "29" :> <<"2", "9">> @@ "2a" :> <<"2", "a">> @@ "2d" :> <<"2", "d">> @@ "2e" :> <<"2", "e">> @@
  "33" :> <<"3", "3">> @@ "35" :> <<"3", "5">> @@ "3a" :> <<"3", "a">> @@ "3b" :> <<"3", "b">> @@
  "3c" :> <<"3", "c">> @@ "3d" :> <<"3", "d">> @@ "3f" :> <<"3", "f">> @@ "44" :> <<"4", "4">> @@
  "45" :> <<"4", "5">> @@ "46" :> <<"4", "6">> @@ "48" :> <<"4", "8">> @@ "4b" :> <<"4", "b">> @@
  "4c" :> <<"4", "c">> @@ "52" :> <<"5", "2">> @@ "58" :> <<"5", "8">> @@ "5a" :> <<"5", "a">> @@
  "5b" :> <<"5", "b">> @@ "5c" :> <<"5", "c">> @@ "5d" :> <<"5", "d">> @@ "5e" :> <<"5", "e">> @@
  "5f" :> <<"5", "f">> @@ "60" :> <<"6", "0">> @@ "62" :> <<"6", "2">> @@ "66" :> <<"6", "6">> @@
  "68" :> <<"6", "8">> @@ "6a" :> <<"6", "a">> @@ "6c" :> <<"6", "c">> @@ "6d" :> <<"6", "d">> @@
  "70" :> <<"7", "0">> @@ "71" :> <<"7", "1">> @@ "73" :> <<"7", "3">> @@ "77" :> <<"7", "7">> @@
  "7e" :> <<"7", "e">> @@ "84" :> <<"8", "4">> @@ "88" :> <<"8", "8">> @@ "8a" :> <<"8", "a">> @@
  "91" :> <<"9", "1">> @@ "95" :> <<"9", "5">> @@ "9a" :> <<"9", "a">> @@ "9b" :> <<"9", "b">> @@
  "9e" :> <<"9", "e">> @@ "a0" :> <<"a", "0">> @@ "a1" :> <<"a", "1">> @@ "a4" :> <<"a", "4">> @@
  "a6" :> <<"a", "6">> @@ "aa" :> <<"a", "a">> @@ "ab" :> <<"a", "b">> @@ "b3" :> <<"b", "3">> @@
  "b6" :> <<"b", "6">> @@ "b7" :> <<"b", "7">> @@ "b8" :> <<"b", "8">> @@ "be" :> <<"b", "e">> @@
  "c2" :> <<"c", "2">> @@ "c3" :> <<"c", "3">> @@ "c4" :> <<"c", "4">> @@ "c7" :> <<"c", "7">> @@
  "c9" :> <<"c", "9">> @@ "cf" :> <<"c", "f">> @@ "d0" :> <<"d", "0">> @@ "d2" :> <<"d", "2">> @@
  "d3" :> <<"d", "3">> @@ "d5" :> <<"d", "5">> @@ "d8" :> <<"d", "8">> @@ "e1" :> <<"e", "1">> @@
  "e2" :> <<"e", "2">> @@ "e5" :> <<"e", "5">> @@ "e7" :> <<"e", "7">> @@ "ee" :> <<"e", "e">> @@
  "f0" :> <<"f", "0">> @@ "f3" :> <<"f", "3">> @@ "f4" :> <<"f", "4">> @@ "f8" :> <<"f", "8">>

HexDigits == {"0", "1", "2", "3", "4", "5", "6", "7", "8", "9",
              "a", "b", "c", "d", "e", "f", "A", "B", "C", "D", "E", "F"}

\* str.lower, character by character.
lower(s) ==
  [i \in DOMAIN s |->
     CASE s[i] = "A" -> "a" [] s[i] = "B" -> "b" [] s[i] = "C" -> "c"
       [] s[i] = "D" -> "d" [] s[i] = "E" -> "e" [] s[i] = "F" -> "f"
       [] OTHER -> s[i]]

\* raw.hex()
RECURSIVE hex(_)
hex(raw) == IF raw = <<>> THEN <<>> ELSE HexOfByte[Head(raw)] \o hex(Tail(raw))

\* NodeId.__str__
NodeId_str(id) == hex(id)

\* NodeId.from_str: ValueError unless s has 2 * LENGTH characters and every
\* pair of them is a hexadecimal number (int(.., 16) takes either case).
NodeId_from_str(s) ==
  IF Len(s) # 2 * LENGTH \/ \E i \in DOMAIN s : s[i] \notin HexDigits
  THEN Raise
  ELSE Ok([i \in 1..LENGTH |->
             CHOOSE b \in DOMAIN HexOfByte :
               HexOfByte[b] = SubSeq(lower(s), 2 * i - 1, 2 * i)])

\* name.startswith(rest)
startswith(name, rest) == Len(rest) <= Len(name) /\ SubSeq(name, 1, Len(rest)) = rest

\* A name tempfile.mkstemp gives: "tmp" and eight characters.
TmpName == <<"t", "m", "p", "k", "3", "_", "x", "0", "q", "z", "7">>

\* os.listdir of the shard directory d: the node files, the temp files of
\* the creates in progress and those that dead processes left.
listdir(d) ==
  {hex(Tail(id)) : id \in {i \in AllIds : nodes[i].exists /\ ShardOf(i) = d}}
    \cup {TmpName : p \in {q \in Procs : tmp[q].exists /\ tmp[q].dir = d}}
    \cup {TmpName : o \in {x \in orphans : x = d}}

\* MVIR.node_ids_with_prefix(s): the ids it returns (a list in the code, in
\* the order of os.listdir; a set here), or the ValueError of from_str.
node_ids_with_prefix(s) ==
  LET first == SubSeq(lower(s), 1, IF Len(s) < 2 THEN Len(s) ELSE 2)   \* s[:2]
      rest == SubSeq(lower(s), 3, Len(s))                              \* s[2:]
      dirsNamed == {d \in Shards : dirs[d].exists /\ HexOfByte[d] = first}
  IN  IF dirsNamed = {} THEN Ok({})   \* except OSError: return []
      ELSE LET names == {name \in UNION {listdir(d) : d \in dirsNamed} :
                           startswith(name, rest)}
           IN  IF \E name \in names : ~NodeId_from_str(first \o name).ok
               THEN Raise
               ELSE Ok({NodeId_from_str(first \o name).val : name \in names})

\* A call of mvir.node_ids_with_prefix(s); detail is the argument, seen the
\* ids returned.
IdsWithPrefix(p, s) ==
  /\ pc[p] = "idle"
  /\ result' = [result EXCEPT ![p] =
       IF node_ids_with_prefix(s).ok
       THEN [NoResult EXCEPT !.op = "node_ids_with_prefix", !.kind = "ids", !.detail = s,
                             !.seen = node_ids_with_prefix(s).val]
       ELSE [Raised("node_ids_with_prefix", NoId, "ValueError") EXCEPT !.detail = s]]
  /\ UNCHANGED << now, registry, disk, pc, loc, nodeCache, stampCache, crashes, work, KEEP_WORK_DIR, frame, memo,
                  tagCalls, completed >>

\* parse_node_id_arg_and_check_tag(mvir, s) for an s of hexadecimal digits,
\* which is no tag name and holds no operator: steps 1 and 4.
Resolve(p, s) ==
  /\ pc[p] = "idle"
  /\ result' = [result EXCEPT ![p] =
       IF Len(s) = 2 * LENGTH /\ NodeId_from_str(s).ok
       THEN [NoResult EXCEPT !.op = "resolve", !.kind = "node_id", !.detail = s,
                             !.id = NodeId_from_str(s).val]
       ELSE IF ~node_ids_with_prefix(s).ok
       THEN [Raised("resolve", NoId, "ValueError") EXCEPT !.detail = s]
       ELSE IF Cardinality(node_ids_with_prefix(s).val) = 0
       THEN [Raised("resolve", NoId, "ValueError: not found") EXCEPT !.detail = s]
       ELSE IF Cardinality(node_ids_with_prefix(s).val) = 1
       THEN [NoResult EXCEPT !.op = "resolve", !.kind = "node_id", !.detail = s,
                             !.id = CHOOSE id \in node_ids_with_prefix(s).val : TRUE]
       ELSE [Raised("resolve", NoId, "ValueError: multiple") EXCEPT !.detail = s]]
  /\ UNCHANGED << now, registry, disk, pc, loc, nodeCache, stampCache, crashes, work, KEEP_WORK_DIR, frame, memo,
                  tagCalls, completed >>

\* The nodes of the concurrent store model.
StoreInputs == {FileA, TreeA}

Next ==
  \E p \in Procs :
       \/ Create(p, StoreInputs)
       \/ \E a \in StoreInputs : Get(p, NodeIdOf(a))
       \/ Crash(p)

Spec == Init /\ [][Next]_vars

\* One process creates the tree, the other queries the index for the file
\* the tree names; either may die and start again.
NextRace ==
  \/ Create("p", {TreeA})
  \/ Query("q", {NodeIdOf(FileA)})
  \/ \E p \in Procs : Crash(p)
  \/ Tick

SpecRace == Init /\ [][NextRace]_vars

\* Two processes that take turns, neither of which dies: "p" creates nodes,
\* "q" queries the index through one MVIR object, and a call runs to its end
\* before the other process makes one.
NextSerial ==
  \/ pc["q"] = "idle" /\ Create("p", {FileA, TreeA})
  \/ pc["p"] = "idle" /\ Query("q", {NodeIdOf(FileA)})
  \/ Tick

SpecSerial == Init /\ [][NextSerial]_vars

\* One process, one MVIR object (until the process dies and starts again).
SeqInputs == {FileA, TreeA, TestResult(Digest(3), Digest(3), "c1", 0)}

NextSeq ==
  \/ Create("p", SeqInputs)
  \/ Query("p", {NodeIdOf(FileA), NodeIdOf(TreeA)})
  \/ Crash("p")
  \/ Tick

SpecSeq == Init /\ [][NextSeq]_vars

\* One process that creates nodes and queries the index, call after call,
\* while the clock stands still or advances; the process does not die.
NextTie ==
  \/ Create("p", SeqInputs)
  \/ Query("p", {NodeIdOf(FileA), NodeIdOf(TreeA)})
  \/ Tick

SpecTie == Init /\ [][NextTie]_vars

\* The index is lost between two calls: its shard files and the index stamp
\* are gone, the nodes and the nodes stamp stay.
LoseIndex ==
  /\ \A p \in Procs : pc[p] = "idle"
  /\ stamps["index"].exists
  /\ index' = [id \in AllIds |-> <<>>]
  /\ stamps' = [stamps EXCEPT !["index"] = NoStamp]
  /\ UNCHANGED << now, registry, nodes, dirs, tmp, orphans, tags, pc, loc, nodeCache,
                  stampCache, result, crashes, work, KEEP_WORK_DIR, frame, memo, tagCalls, completed >>

\* One process that creates nodes and queries the index, call after call; the
\* index may be lost between two calls, and the process may end and another
\* start.
NextRebuild ==
  \/ Create("p", SeqInputs)
  \/ Query("p", {NodeIdOf(FileA), NodeIdOf(TreeA)})
  \/ LoseIndex
  \/ Exit("p")
  \/ Tick

SpecRebuild == Init /\ [][NextRebuild]_vars

\* The steps of _create after the nodes stamp is touched, up to the rename.
CreateWindow == {"mkstemp", "write_meta", "write_body", "chmod", "rename"}

\* The process dies in _create, after the nodes stamp was touched and before
\* the rename.
CrashInCreate(p) == pc[p] \in CreateWindow /\ Crash(p)

\* One process that creates nodes and queries the index and may die in a
\* create; the process that starts after it goes on.
NextCrash ==
  \/ Create("p", SeqInputs)
  \/ Query("p", {NodeIdOf(FileA), NodeIdOf(TreeA)})
  \/ CrashInCreate("p")
  \/ Tick

SpecCrash == Init /\ [][NextCrash]_vars

\* A store that holds, beside a file node, node files whose metadata has
\* not the keys of its kind; two processes call Node.new with such metadata
\* and with valid metadata, and load the stored nodes.
BadKeysStored == {FileExtra, TreeMissing, TreeExtra, TestResultMissing, CompileCommandsMissing}
BadKeysInputs == BadKeysStored \cup {TreeBoth}
InitKeys == InitWith({FileA} \cup BadKeysStored)

NextKeys ==
  \E p \in Procs :
    \/ Create(p, BadKeysInputs \cup {FileB})
    \/ \E a \in BadKeysStored \cup {FileA, FileB} : Get(p, NodeIdOf(a))

SpecKeys == InitKeys /\ [][NextKeys]_vars

\* The paths of the model, and path.split('/') of each.
PathNames ==
  {"x.rs", "y.rs", "z.rs", "src/x.rs", "src/y.rs", "/x.rs", "../x.rs", "./x.rs", "src//x.rs",
   "src/../x.rs"}
split(path) ==
  CASE path = "x.rs" -> <<"x.rs">>
    [] path = "y.rs" -> <<"y.rs">>
    [] path = "z.rs" -> <<"z.rs">>
    [] path = "src/x.rs" -> <<"src", "x.rs">>
    [] path = "src/y.rs" -> <<"src", "y.rs">>
    [] path = "/x.rs" -> <<"", "x.rs">>
    [] path = "../x.rs" -> <<"..", "x.rs">>
    [] path = "./x.rs" -> <<".", "x.rs">>
    [] path = "src//x.rs" -> <<"src", "", "x.rs">>
    [] path = "src/../x.rs" -> <<"src", "..", "x.rs">>

\* os.path.isabs(path): the path starts with '/'.
isabs(path) == Len(split(path)) > 1 /\ split(path)[1] = ""

\* The loop of posixpath.normpath over the components: empty ones and '.'
\* are dropped, '..' removes the component before it when there is one that
\* is not '..' itself, and stays at the start of a relative path.
RECURSIVE NormComps(_, _, _)
NormComps(comps, new_comps, initial_slashes) ==
  IF comps = <<>> THEN new_comps
  ELSE LET comp == Head(comps)
       IN  IF comp \in {"", "."}
           THEN NormComps(Tail(comps), new_comps, initial_slashes)
           ELSE IF \/ comp # ".."
                   \/ (~initial_slashes /\ new_comps = <<>>)
                   \/ (new_comps # <<>> /\ new_comps[Len(new_comps)] = "..")
           THEN NormComps(Tail(comps), Append(new_comps, comp), initial_slashes)
           ELSE IF new_comps # <<>>
           THEN NormComps(Tail(comps), SubSeq(new_comps, 1, Len(new_comps) - 1),
                          initial_slashes)
           ELSE NormComps(Tail(comps), new_comps, initial_slashes)

\* os.path.normpath(path), as the components of the path it returns ('.'
\* for an empty result).
normpath(path) ==
  LET new_comps == NormComps(split(path), <<>>, isabs(path))
  IN  IF isabs(path) THEN <<"">> \o new_comps
      ELSE IF new_comps = <<>> THEN <<".">>
      ELSE new_comps

\* One process creates trees whose path is absolute, or not normalized, or
\* neither, and loads them.
PathInputs == {TreeAt(path) : path \in {"x.rs", "/x.rs", "../x.rs", "./x.rs", "src//x.rs"}}

NextPaths ==
  \/ Create("p", PathInputs \cup {FileA})
  \/ \E a \in PathInputs : Get("p", NodeIdOf(a))
  \/ Exit("p")

SpecPaths == Init /\ [][NextPaths]_vars

\* Node.new calls in which the value of one field has not the declared type
\* of the field: an int for Optional[NodeId], a str for int, a NodeId for
\* dict[str, NodeId]; beside them a call with values of the declared types.
TypeInputs ==
  { CompileCommandsNew(PInt(7)),
    CompileCommandsNew(PNone),
    [TestResult(Digest(3), Digest(3), "c1", 0) EXCEPT !.kwargs[4][2] = PStr("c1")],
    [TreeA EXCEPT !.kwargs[1][2] = PNodeId(Digest(1))] }

\* One process makes these calls and loads what they stored; it may end and
\* another start.
NextTypes ==
  \/ Create("p", TypeInputs)
  \/ \E cc \in {PInt(7), PNone} : Get("p", NodeIdOf(CompileCommandsNew(cc)))
  \/ Exit("p")
  \/ Tick

SpecTypes == Init /\ [][NextTypes]_vars

\* A store that holds a file node, a node of a kind that is not registered
\* and has no migration, and nodes whose metadata has not the keys of its
\* kind; two processes load these and ids that are not stored, and one node
\* is created meanwhile.
InitGet == InitWith({FileA, OldA} \cup BadKeysStored)
GetTargets == {FileA, FileB, TreeA, OldA} \cup BadKeysStored

NextGet ==
  \E p \in Procs :
    \/ \E a \in GetTargets : Get(p, NodeIdOf(a))
    \/ Create(p, {FileB})
    \/ Exit(p)

SpecGet == InitGet /\ [][NextGet]_vars

\* One process creates nodes, two of them in one shard directory, and may
\* die inside a create; meanwhile another looks ids up by prefixes of one
\* to 2 * LENGTH hexadecimal digits, in either letter case.
PrefixInputs == {FileA, TreeA, FileB}
Prefixes ==
  { <<"a">>, <<"a", "1">>, <<"A", "1">>, <<"a", "1", "0">>, <<"a", "1", "0", "7">>,
    <<"a", "1", "9", "E">>, <<"4", "b">>, <<"4", "b", "d">>, <<"4", "b", "0">> }

NextPrefix ==
  \/ Create("p", PrefixInputs)
  \/ Crash("p")
  \/ \E s \in Prefixes : IdsWithPrefix("q", s)
  \/ \E s \in Prefixes : Resolve("q", s)

SpecPrefix == Init /\ [][NextPrefix]_vars

\* One process creates two trees and a test result whose code is the one
\* tree and whose test_code is the other, and queries the index for the
\* trees, call after call; it may exit and start again between calls.
ExactR == TestResult(Digest(3), Digest(4), "c1", 0)
ExactInputs == {TreeA, TreeB, ExactR}

NextExact ==
  \/ Create("p", ExactInputs)
  \/ Query("p", {NodeIdOf(TreeA), NodeIdOf(TreeB)})
  \/ Exit("p")
  \/ Tick

SpecExact == Init /\ [][NextExact]_vars

\* Two processes create a test result and a tree of two files, each with
\* its dict built in one order or the other.
OrderInputs ==
  { TestResult(Digest(3), Digest(3), "c1", 0), TestResultReversed(Digest(3), Digest(3), "c1", 0),
    TreeTwo, TreeTwoReversed }

NextOrder ==
  \E p \in Procs :
    \/ Create(p, OrderInputs)
    \/ Exit(p)

SpecOrder == Init /\ [][NextOrder]_vars

\* Two processes that take the work directory with lock_work_dir, check
\* files out into it and leave; either may die, inside the with statement
\* too.
NextLock ==
  \E p \in Procs :
    \/ LockAcquire(p)
    \/ \E rel_path \in WorkFiles : checkout_file(p, rel_path)
    \/ \E keep \in BOOLEAN : set_keep_work_dir(p, keep)
    \/ LockRelease(p)
    \/ LockRmdir(p)
    \/ Crash(p)

SpecLock == Init /\ [][NextLock]_vars

\* A store that holds a file and a tree that names it, created and not yet
\* indexed; two processes query the index for the file, each through its
\* own MVIR object, and neither dies.
InitTwoUpdaters == InitWith({FileA, TreeA})

NextTwoUpdaters ==
  \/ \E p \in Procs : Query(p, {NodeIdOf(FileA)})
  \/ Tick

SpecTwoUpdaters == InitTwoUpdaters /\ [][NextTwoUpdaters]_vars

\* One process creates a tree, queries the index and sets the two tags, to
\* the tree (stored or not yet) and to a node that is never stored.
FrameCalls == { <<Digest(3), PNone>>, <<Digest(2), PStr("commit")>> }

NextTagFrame ==
  \/ Create("p", {TreeA})
  \/ Query("p", {NodeIdOf(FileA)})
  \/ \E n \in TestTags, c \in FrameCalls : SetTag("p", n, c[1], c[2])

SpecTagFrame == Init /\ [][NextTagFrame]_vars

\* One process creates two trees that name the same file, and it and
\* another query the index for the file; a call of one may run between the
\* steps of a call of the other, and neither dies.
AppendInputs == {TreeA, TreeTwo}

NextAppend ==
  \/ Create("p", AppendInputs)
  \/ \E p \in Procs : Query(p, {NodeIdOf(FileA)})

SpecAppend == Init /\ [][NextAppend]_vars

(***************************************************************************)
(* llm.run_rewrite: emit_files, extract_files, and the nodes it stores.    *)
(* A path is held as its components (split), which is how short paths are  *)
(* compared; every file of the model is a Rust file.                       *)
(***************************************************************************)
\* The components of a path that count: '' and '.' are dropped.
Parts(path) == SelectSeq(split(path), LAMBDA c : c \notin {"", "."})

\* The length of the longest common prefix of two sequences.
RECURSIVE CommonLen(_, _)
CommonLen(s, t) ==
  IF s = <<>> \/ t = <<>> \/ Head(s) # Head(t) THEN 0
  ELSE 1 + CommonLen(Tail(s), Tail(t))

\* os.path.dirname(path), and os.path.commonpath(paths) of two paths or more.
dirname(path) == SubSeq(split(path), 1, Len(split(path)) - 1)
commonpath(paths) ==
  LET first == Parts(CHOOSE path \in paths : TRUE)
      n == CHOOSE k \in 0..Len(first) :
             /\ \A path \in paths : CommonLen(SubSeq(first, 1, k), Parts(path)) = k
             /\ \A j \in (k + 1)..Len(first) :
                  \E path \in paths : CommonLen(SubSeq(first, 1, j), Parts(path)) < j
  IN  SubSeq(first, 1, n)

\* os.path.relpath(path, start), both relative to the current directory.
relpath(path, start) ==
  LET path_list == normpath(path)
      i == CommonLen(start, path_list)
  IN  [j \in 1..(Len(start) - i) |-> ".."] \o SubSeq(path_list, i + 1, Len(path_list))

\* pathlib.Path(path).match(g) for a relative pattern without wildcards: the
\* pattern is matched from the right.
PathMatch(path, g) ==
  LET parts == Parts(path)
      pat == split(g)
  IN  /\ Len(pat) <= Len(parts)
      /\ \A i \in 1..Len(pat) : parts[Len(parts) - Len(pat) + i] = pat[i]

\* any(path_obj.match(g) for g in glob_filter), when glob_filter is not None
glob_match(path, glob_filter) ==
  glob_filter = None \/ \E i \in DOMAIN glob_filter : PathMatch(path, glob_filter[i])

\* emit_files(mvir, n, glob_filter): short_path_map, as the set of its items.
emit_files(files, glob_filter) ==
  LET paths == DictKeys(files)
      common_prefix ==
        IF Cardinality(paths) = 0 THEN <<>>
        ELSE IF Cardinality(paths) = 1 THEN dirname(CHOOSE path \in paths : TRUE)
        ELSE commonpath(paths)
  IN  {<<relpath(path, common_prefix), path>> :
         path \in {q \in paths : glob_match(q, glob_filter)}}

\* out_short_path in short_path_map, and short_path_map[out_short_path]
InMap(short_path_map, out_short_path) ==
  \E item \in short_path_map : item[1] = split(out_short_path)
MapGet(short_path_map, out_short_path) ==
  (CHOOSE item \in short_path_map : item[1] = split(out_short_path))[2]

\* One markdown block of a response, in the format of emit_file: the line
\* before the opening fence and the text between the fences.  The fence of
\* every block of the model carries the file type of its path.
Block(path, text) == [path |-> path, text |-> text]

\* extract_files(s): the blocks whose path line passes the heuristics (no
\* '..' in it, and normalized).
extract_files(blocks) ==
  SelectSeq(blocks, LAMBDA b :
    /\ \A i \in DOMAIN split(b.path) : split(b.path)[i] # ".."
    /\ normpath(b.path) = split(b.path))

\* LlmOpNode.new with its five fields.
LlmOpNew(old_code, new_code, raw_prompt, request, response) ==
  NewArgs("LlmOpNode",
          << <<PStr("old_code"), PNodeId(old_code)>>, <<PStr("new_code"), PNodeId(new_code)>>,
             <<PStr("raw_prompt"), PNodeId(raw_prompt)>>,
             <<PStr("request"), PNodeId(request)>>,
             <<PStr("response"), PNodeId(response)>> >>,
          <<>>)

\* run_rewrite up to the loop over the extracted files: emit_files (which
\* loads each file it emits), the request, and output_files = copy of the
\* input tree's files.  The caller holds input_code; resp is what the LLM
\* answers.
RewriteCall(p, input_code, glob_filter, resp) ==
  /\ pc[p] = "idle"
  /\ frame[p].stage = "idle"
  /\ memo[p].stage = "idle"
  /\ input_code \in Stored
  /\ Len(tagCalls["op_history"]) < MaxLog
  /\ \E n \in {MvirNode(p, input_code)} :
     \E short_path_map \in {emit_files(DictGet(n, "files"), glob_filter)} :
       /\ \A item \in short_path_map : DictGet(DictGet(n, "files"), item[2]).v \in Stored
       /\ nodeCache' = [nodeCache EXCEPT ![p] =
            @ \cup {[id |-> input_code, metadata |-> n]}
              \cup {[id |-> DictGet(DictGet(n, "files"), item[2]).v,
                     metadata |-> MvirNode(p, DictGet(DictGet(n, "files"), item[2]).v)] :
                      item \in short_path_map}]
       /\ frame' = [frame EXCEPT ![p] =
            [NoFrame EXCEPT !.fn = "run_rewrite", !.stage = "blocks", !.input = input_code,
                            !.glob_filter = glob_filter, !.output = resp,
                            !.blocks = extract_files(resp.blocks),
                            !.short_path_map = short_path_map,
                            !.output_files = DictGet(n, "files"),
                            !.tag_before = tagCalls["op_history"]]]
  /\ result' = [result EXCEPT ![p] = NoResult]
  /\ UNCHANGED << now, registry, disk, pc, loc, stampCache, crashes, work, KEEP_WORK_DIR, memo,
                  tagCalls, completed >>

\* Faulty variant, for comparison: a block whose path is not in short_path_map is skipped.
RewriteBlock_SkipUnknown(p) ==
  /\ frame[p].fn = "run_rewrite"
  /\ frame[p].stage = "blocks"
  /\ pc[p] = "idle"
  /\ frame' = [frame EXCEPT ![p] =
       IF frame[p].blocks = <<>> THEN [@ EXCEPT !.stage = "new_tree"]
       ELSE IF ~InMap(frame[p].short_path_map, Head(frame[p].blocks).path)
       THEN [@ EXCEPT !.blocks = Tail(@)]
       ELSE [@ EXCEPT !.stage = "new_file"]]
  /\ result' = [result EXCEPT ![p] = NoResult]
  /\ UNCHANGED << now, registry, disk, pc, loc, nodeCache, stampCache, crashes, work,
                  KEEP_WORK_DIR, memo, tagCalls, completed >>

\* The head of the loop: the assertion on the next extracted file, or the
\* end of the loop.
RewriteBlock(p) ==
  /\ frame[p].fn = "run_rewrite"
  /\ frame[p].stage = "blocks"
  /\ pc[p] = "idle"
  /\ frame' = [frame EXCEPT ![p] =
       IF frame[p].blocks = <<>> THEN [@ EXCEPT !.stage = "new_tree"]
       ELSE IF ~InMap(frame[p].short_path_map, Head(frame[p].blocks).path)
       THEN [@ EXCEPT !.stage = "idle", !.outcome = "error", !.error = "AssertionError"]
       ELSE [@ EXCEPT !.stage = "new_file"]]
  /\ result' = [result EXCEPT ![p] = NoResult]
  /\ UNCHANGED << now, registry, disk, pc, loc, nodeCache, stampCache, crashes, work,
                  KEEP_WORK_DIR, memo, tagCalls, completed >>

\* The Node.new call run_rewrite makes at each stage.
RewriteNewArgs(p) ==
  LET f == frame[p]
  IN  IF f.fn # "run_rewrite" \/ result[p].op = "create" THEN {}
      ELSE CASE f.stage = "new_file" ->
                  {NewArgs("FileNode", <<>>, <<Head(f.blocks).text>>)}
             [] f.stage = "new_tree" ->
                  {NewArgs("TreeNode", << <<PStr("files"), f.output_files>> >>, <<>>)}
             [] f.stage = "new_prompt" -> {FilePrompt}
             [] f.stage = "new_request" -> {FileRequest}
             [] f.stage = "new_response" -> {FileResponse(f.output.text)}
             [] f.stage = "new_op" ->
                  {LlmOpNew(f.input, f.output_code, f.raw_prompt, f.request, f.response)}
             [] OTHER -> {}

\* A Node.new call of run_rewrite has returned or raised: the node id goes
\* where the code puts it, and an exception leaves run_rewrite.
RewriteStored(p) ==
  /\ frame[p].fn = "run_rewrite"
  /\ frame[p].stage \in {"new_file", "new_tree", "new_prompt", "new_request",
                         "new_response", "new_op"}
  /\ pc[p] = "idle"
  /\ result[p].op = "create"
  /\ frame' = [frame EXCEPT ![p] =
       IF result[p].kind = "error"
       THEN [@ EXCEPT !.stage = "idle", !.outcome = "error", !.error = result[p].error]
       ELSE LET f == [@ EXCEPT !.made = @ \cup {result[p].a.cls}]
                id == result[p].id
            IN  CASE f.stage = "new_file" ->
                       [f EXCEPT !.output_files =
                                    DictSet(@, MapGet(f.short_path_map, Head(f.blocks).path),
                                            PNodeId(id)),
                                 !.blocks = Tail(@), !.stage = "blocks"]
                  [] f.stage = "new_tree" -> [f EXCEPT !.output_code = id, !.stage = "new_prompt"]
                  [] f.stage = "new_prompt" -> [f EXCEPT !.raw_prompt = id, !.stage = "new_request"]
                  [] f.stage = "new_request" -> [f EXCEPT !.request = id, !.stage = "new_response"]
                  [] f.stage = "new_response" -> [f EXCEPT !.response = id, !.stage = "new_op"]
                  [] f.stage = "new_op" -> [f EXCEPT !.n_op = id, !.stage = "tag"]]
  /\ result' = [result EXCEPT ![p] = NoResult]
  /\ UNCHANGED << now, registry, disk, pc, loc, nodeCache, stampCache, crashes, work,
                  KEEP_WORK_DIR, memo, tagCalls, completed >>

\* mvir.set_tag('op_history', n_op.node_id(), n_op.kind); return
RewriteTag(p) ==
  /\ frame[p].fn = "run_rewrite"
  /\ frame[p].stage = "tag"
  /\ pc[p] = "idle"
  /\ tags' = set_tag("op_history", frame[p].n_op, PStr(KIND("LlmOpNode")))
  /\ tagCalls' = [tagCalls EXCEPT !["op_history"] =
                    Append(@, [node_id |-> frame[p].n_op, reason |-> PStr(KIND("LlmOpNode"))])]
  /\ frame' = [frame EXCEPT ![p].stage = "idle", ![p].outcome = "returned"]
  /\ UNCHANGED << now, registry, nodes, dirs, tmp, orphans, stamps, index, pc, loc, nodeCache,
                  stampCache, result, crashes, work, KEEP_WORK_DIR, memo, completed >>

\* What the LLM answers in the model: the offered file rewritten; a block
\* whose path line has '..' in it; a path that is in no tree; and the offered
\* file followed by the file of the tree that was not offered.
Responses ==
  { [text |-> "rewritten", blocks |-> <<Block("x.rs", "b")>>],
    [text |-> "ignored", blocks |-> <<Block("../x.rs", "b")>>],
    [text |-> "unknown", blocks |-> <<Block("z.rs", "b")>>],
    [text |-> "unoffered", blocks |-> <<Block("x.rs", "b"), Block("y.rs", "b")>>] }

\* One process rewrites the stored tree src/{x,y}.rs, offering x.rs only.
InitRewrite == InitWith({FileA, FileB, TreeSrc})

NextRewrite ==
  \/ \E resp \in Responses : RewriteCall("p", NodeIdOf(TreeSrc), <<"x.rs">>, resp)
  \/ RewriteBlock("p")
  \/ Create("p", RewriteNewArgs("p"))
  \/ RewriteStored("p")
  \/ RewriteTag("p")
  \/ Exit("p")
  \/ Tick

SpecRewrite == InitRewrite /\ [][NextRewrite]_vars

\* The process dies in the loop of _update_index, after some appends or
\* none, and before the index stamp is rewritten.
CrashInUpdate(p) == pc[p] = "upd_node" /\ Crash(p)

\* One process that creates the file and the tree and queries the index, and
\* may die in an index update; the process that starts after it goes on.
NextInterrupt ==
  \/ Create("p", {FileA, TreeA})
  \/ Query("p", {NodeIdOf(FileA)})
  \/ CrashInUpdate("p")
  \/ Tick

SpecInterrupt == Init /\ [][NextInterrupt]_vars

\* mvir.has_tag(name): os.path.exists of the tag file.
HasTag(p, name) ==
  /\ pc[p] = "idle"
  /\ result' = [result EXCEPT ![p] =
       [NoResult EXCEPT !.op = "has_tag", !.name = name,
                        !.kind = IF tags[name].exists THEN "True" ELSE "False"]]
  /\ UNCHANGED << now, registry, disk, pc, loc, nodeCache, stampCache, crashes, work,
                  KEEP_WORK_DIR, frame, memo, tagCalls, completed >>

\* Two processes that take turns: "p" creates the tree and sets a tag, and
\* "q" reads (gets, tag look-ups, prefix look-ups and index queries), all
\* through one MVIR object.
NextReads ==
  \/ pc["q"] = "idle" /\ Create("p", {TreeA})
  \/ SetTag("p", "test_results", Digest(3), PNone)
  \/ pc["p"] = "idle" /\ Query("q", {NodeIdOf(FileA)})
  \/ Get("q", NodeIdOf(TreeA))
  \/ Tag("q", "test_results")
  \/ HasTag("q", "test_results")
  \/ TagReflog("q", "test_results")
  \/ IdsWithPrefix("q", <<"a", "1">>)
  \/ Tick

SpecReads == Init /\ [][NextReads]_vars

(***************************************************************************)
(* git.render: the walk from the target tree back through the operations   *)
(* that produced it.  Of the lists trees and ops the frame keeps the last   *)
(* MaxWalk elements; the commits made after the walk are not modelled.      *)
(***************************************************************************)
\* OP_NODE_KINDS and HISTORY_INDEX_KEYS
OP_NODE_KINDS == [llm_op |-> <<"old_code", "new_code">>]
HISTORY_INDEX_KEYS == {<<kind, OP_NODE_KINDS[kind][2]>> : kind \in DOMAIN OP_NODE_KINDS}

\* list.append, keeping the last MaxWalk elements.
AppendLast(list, x) ==
  IF Len(list) < MaxWalk THEN Append(list, x) ELSE Append(Tail(list), x)

\* render(mvir, target) begins: trees = [target], ops = [].  The caller
\* holds the target tree.
RenderCall(p, target) ==
  /\ pc[p] = "idle"
  /\ frame[p].stage = "idle"
  /\ memo[p].stage = "idle"
  /\ target \in Stored
  /\ frame' = [frame EXCEPT ![p] =
                 [NoFrame EXCEPT !.fn = "render", !.stage = "index", !.trees = <<target>>]]
  /\ result' = [result EXCEPT ![p] = NoResult]
  /\ UNCHANGED << now, registry, disk, pc, loc, nodeCache, stampCache, crashes, work,
                  KEEP_WORK_DIR, memo, tagCalls, completed >>

\* The index query of the loop: mvir.index(trees[-1].node_id()).
RenderTargets(p) ==
  IF frame[p].fn = "render" /\ frame[p].stage = "index" /\ result[p].op # "index"
  THEN {frame[p].trees[Len(frame[p].trees)]}
  ELSE {}

\* The rest of one turn of the loop: the first entry whose (kind, key) is in
\* HISTORY_INDEX_KEYS; without one the loop ends, and otherwise the op and
\* its old tree are loaded and appended.
RenderStep(p) ==
  /\ frame[p].fn = "render"
  /\ frame[p].stage = "index"
  /\ pc[p] = "idle"
  /\ result[p].op = "index"
  /\ LET entries == result[p].entries
         hits == {i \in DOMAIN entries : <<entries[i].kind, entries[i].key>> \in HISTORY_INDEX_KEYS}
     IN  IF result[p].kind = "error"
         THEN /\ frame' = [frame EXCEPT ![p].stage = "idle", ![p].outcome = "error",
                                        ![p].error = result[p].error]
              /\ UNCHANGED nodeCache
         ELSE IF hits = {}
         THEN /\ frame' = [frame EXCEPT ![p].stage = "idle", ![p].outcome = "returned"]
              /\ UNCHANGED nodeCache
         ELSE \E op_node_id \in {entries[CHOOSE i \in hits : \A j \in hits : i <= j].node_id} :
              \E op \in {MvirNode(p, op_node_id)} :
              \E old_tree_node_id \in
                   {DictGet(op, OP_NODE_KINDS[DictGet(op, "kind").v][1]).v} :
                IF old_tree_node_id \notin Stored /\ ~InCache(p, old_tree_node_id)
                THEN /\ frame' = [frame EXCEPT ![p].stage = "idle", ![p].outcome = "error",
                                               ![p].error = "FileNotFoundError"]
                     /\ nodeCache' = [nodeCache EXCEPT ![p] = CachePut(@, op_node_id, op)]
                ELSE /\ frame' = [frame EXCEPT
                                    ![p].ops = AppendLast(@, op_node_id),
                                    ![p].trees = AppendLast(@, old_tree_node_id)]
                     /\ nodeCache' = [nodeCache EXCEPT ![p] =
                          CachePut(CachePut(@, op_node_id, op), old_tree_node_id,
                                   MvirNode(p, old_tree_node_id))]
  /\ result' = [result EXCEPT ![p] = NoResult]
  /\ UNCHANGED << now, registry, disk, pc, loc, stampCache, crashes, work, KEEP_WORK_DIR,
                  memo, tagCalls, completed >>

\* The operations run_rewrite may store after the rewrite of src/x.rs: a
\* rewrite that changed no file, and a rewrite that restores the first tree.
RenderOps ==
  { LlmOp(Digest(26), Digest(26), Digest(31)), LlmOp(Digest(27), Digest(26), Digest(30)) }

\* A store that holds the two trees and the rewrite of the one into the
\* other; between two calls of render the process stores operations, and a
\* call of render, once begun, goes on.
InitRender == InitWith({TreeSrc, TreeSrcOut, LlmOp(Digest(26), Digest(27), Digest(30))})

NextRender ==
  \/ frame["p"].stage = "idle" /\ Create("p", RenderOps)
  \/ \E target \in {NodeIdOf(TreeSrc), NodeIdOf(TreeSrcOut)} : RenderCall("p", target)
  \/ Query("p", RenderTargets("p"))
  \/ RenderStep("p")

SpecRender == InitRender /\ [][NextRender]_vars

(***************************************************************************)
(* do_transpile (crisp/__main__.py): the C tree is the one named on the    *)
(* command line, or the c_code of an operation found through the index of  *)
(* the compile commands node.  The transpiler run that follows is not      *)
(* modelled.                                                               *)
(***************************************************************************)
\* ie.kind == 'compile_commands_op' and ie.key == 'compile_commands'
TranspileEntryMatches(ie) ==
  ie.kind = "compile_commands_op" /\ ie.key = "compile_commands"

\* do_transpile begins: n_cc is loaded; with args.c_code_node (NoId stands
\* for None) the C tree is loaded and the function goes on to the transpiler,
\* and without it the index of n_cc is queried.
TranspileCall(p, cc_node_id, c_code_node) ==
  /\ pc[p] = "idle"
  /\ frame[p].stage = "idle"
  /\ memo[p].stage = "idle"
  /\ cc_node_id \in Stored
  /\ frame' = [frame EXCEPT ![p] =
                 IF c_code_node = NoId
                 THEN [NoFrame EXCEPT !.fn = "do_transpile", !.stage = "index",
                                      !.input = cc_node_id]
                 ELSE IF c_code_node \in Stored
                 THEN [NoFrame EXCEPT !.fn = "do_transpile", !.outcome = "returned",
                                      !.input = cc_node_id, !.n_c_code = c_code_node,
                                      !.c_code = c_code_node]
                 ELSE [NoFrame EXCEPT !.fn = "do_transpile", !.outcome = "error",
                                      !.error = "FileNotFoundError",
                                      !.input = cc_node_id, !.n_c_code = c_code_node]]
  /\ result' = [result EXCEPT ![p] = NoResult]
  /\ UNCHANGED << now, registry, disk, pc, loc, nodeCache, stampCache, crashes, work,
                  KEEP_WORK_DIR, memo, tagCalls, completed >>

\* mvir.index(n_cc.node_id())
TranspileTargets(p) ==
  IF frame[p].fn = "do_transpile" /\ frame[p].stage = "index" /\ result[p].op # "index"
  THEN {frame[p].input}
  ELSE {}

\* The for loop over the entries with its else clause, and
\* n_c_code = mvir.node(c_code_node_id).
TranspileLookup(p) ==
  /\ frame[p].fn = "do_transpile"
  /\ frame[p].stage = "index"
  /\ pc[p] = "idle"
  /\ result[p].op = "index"
  /\ LET entries == result[p].entries
         hits == {i \in DOMAIN entries : TranspileEntryMatches(entries[i])}
     IN  IF result[p].kind = "error"
         THEN /\ frame' = [frame EXCEPT ![p].stage = "idle", ![p].outcome = "error",
                                        ![p].error = result[p].error]
              /\ UNCHANGED nodeCache
         ELSE IF hits = {}
         THEN /\ frame' = [frame EXCEPT ![p].stage = "idle", ![p].outcome = "error",
                                        ![p].error = "ValueError"]
              /\ UNCHANGED nodeCache
         ELSE \E op_node_id \in {entries[CHOOSE i \in hits : \A j \in hits : i <= j].node_id} :
              \E n_op \in {MvirNode(p, op_node_id)} :
              \E c_code_node_id \in {DictGet(n_op, "c_code").v} :
                /\ nodeCache' = [nodeCache EXCEPT ![p] = CachePut(@, op_node_id, n_op)]
                /\ frame' = [frame EXCEPT ![p] =
                      IF c_code_node_id \in Stored \/ InCache(p, c_code_node_id)
                      THEN [@ EXCEPT !.stage = "idle", !.outcome = "returned",
                                     !.n_op = op_node_id, !.c_code = c_code_node_id]
                      ELSE [@ EXCEPT !.stage = "idle", !.outcome = "error",
                                     !.n_op = op_node_id, !.error = "FileNotFoundError"]]
  /\ UNCHANGED << now, registry, disk, pc, loc, stampCache, result, crashes, work,
                  KEEP_WORK_DIR, memo, tagCalls, completed >>

\* What cc_cmake stores for the tree: the operation, with the compile
\* commands file it produced or with none.
CcCmakeOps == {CompileCommandsNew(PNodeId(Digest(1))), CompileCommandsNew(PNone)}

\* The store holds the compile commands file and the C tree; between two
\* calls of do_transpile the process runs cc_cmake, and it may end.
InitTranspile == InitWith({FileA, TreeA})

NextTranspile ==
  \/ frame["p"].stage = "idle" /\ Create("p", CcCmakeOps)
  \/ \E c_code_node \in {NoId, Digest(3), Digest(4)} : TranspileCall("p", Digest(1), c_code_node)
  \/ Query("p", TranspileTargets("p"))
  \/ TranspileLookup("p")
  \/ Exit("p")
  \/ Tick

SpecTranspile == InitTranspile /\ [][NextTranspile]_vars

\* One process sets, resolves and lists tags.
TagCalls ==
  { <<Digest(3), PNone>>, <<Digest(3), PStr("commit")>>, <<Digest(4), PStr("commit")>> }

NextTags ==
  \/ \E n \in TestTags, c \in TagCalls : SetTag("p", n, c[1], c[2])
  \/ \E n \in TestTags : Tag("p", n)
  \/ \E n \in TestTags : TagReflog("p", n)

SpecTags == Init /\ [][NextTags]_vars

\* Two processes set and list the tags, each set_tag step by step; either may
\* die at any point.
LogName == "test_results"
LogCalls == { <<Digest(3), PNone>>, <<Digest(4), PStr("commit")>> }

NextLog ==
  \E p \in Procs :
     \/ \E c \in LogCalls : SetTagOpen(p, LogName, c[1], c[2])
     \/ SetTagDump(p)
     \/ SetTagWrite(p)
     \/ SetTagClose(p)
     \/ TagReflog(p, LogName)
     \/ Tag(p, LogName)
     \/ Crash(p)

SpecLog == Init /\ [][NextLog]_vars

\* A store that holds nodes written by earlier versions of the program, under
\* kinds that are no longer registered, and one file node.  The process
\* registers migrations for the retired kinds old_a and old_b (each sets the
\* kind to some kind, or deletes it), constructs nodes of the current
\* compile-commands kind, and loads the stored nodes.  A loop that can take a
\* turn does take it.
LegacyNodes == {OldA, CompileCommandsOld(PNone), CompileCommandsOld(PNodeId(Digest(1)))}
InitLoad == InitWith(LegacyNodes \cup {FileA})
OldKinds == {"old_a", "old_b"}
MigrationFns ==
  {MigrationFn("set_kind", k) : k \in OldKinds \cup {"file", "tree"}}
    \cup {MigrationFn("del_kind", "")}
LoadInputs == {CompileCommandsNew(PNone), CompileCommandsNew(PNodeId(Digest(1)))}

NextLoad ==
  \/ \E k \in OldKinds \cup {"compile_commands_op"}, f \in MigrationFns :
        f.to # k /\ Migration("p", k, f)
  \/ \E a \in LegacyNodes \cup {FileA, FileB} : GetOpen("p", NodeIdOf(a))
  \/ GetMigrate("p")
  \/ GetFinish("p")
  \/ Create("p", LoadInputs)

SpecLoad ==
  InitLoad /\ [][NextLoad]_vars /\ WF_vars(GetMigrate("p")) /\ WF_vars(GetFinish("p"))

\* One process at a time stores the tree, calls run_tests, and stores a test
\* result of its own (a record of "c2" with another exit code); it may end
\* between calls, and the next process starts with an empty memory.
MemoCmds == {"c1", "c2"}
MemoDirect == {TreeA, TestResult(Digest(3), Digest(3), "c2", 0)}

\* The Node.new calls open to the process: the one of run_tests when it is
\* in run_tests, its own when it is in no call.
MemoNewArgs(p) ==
  IF memo[p].stage = "new" /\ result[p].op # "create" THEN {RunTests(memo[p].code, memo[p].test_code, memo[p].cmd)}
  ELSE IF memo[p].stage = "idle" THEN MemoDirect
  ELSE {}

\* The index query of the wrapper.
MemoTargets(p) ==
  IF memo[p].stage = "lookup" /\ result[p].op # "index" THEN {memo[p].code} ELSE {}

NextMemo ==
  \/ \E cmd \in MemoCmds : MemoCall("p", cmd)
  \/ Query("p", MemoTargets("p"))
  \/ MemoMatch("p")
  \/ MemoRun("p")
  \/ Create("p", MemoNewArgs("p"))
  \/ MemoTagResults("p")
  \/ MemoReturn("p")
  \/ Exit("p")
  \/ Tick

SpecMemo == Init /\ [][NextMemo]_vars

\* The tree is stored; one process calls run_tests with one command, may
\* die in an index update, and the process that starts after it calls again.
InitAmbiguous == InitWith({FileA, TreeA})

NextAmbiguous ==
  \/ MemoCall("p", "c1")
  \/ Query("p", MemoTargets("p"))
  \/ MemoMatch("p")
  \/ MemoRun("p")
  \/ Create("p", IF memo["p"].stage = "new" THEN MemoNewArgs("p") ELSE {})
  \/ MemoTagResults("p")
  \/ MemoReturn("p")
  \/ CrashInUpdate("p")
  \/ Exit("p")
  \/ Tick

SpecAmbiguous == InitAmbiguous /\ [][NextAmbiguous]_vars

(***************************************************************************)
(* do_main (crisp/__main__.py) with Workflow.transpile, Workflow.test and  *)
(* Workflow.accept (crisp/workflow.py).  The tools the workflow runs       *)
(* (the transpiler, the patches, split_ffi, cargo check, the LLM) are the  *)
(* environment: each returns any of the stored Rust trees, or fails.       *)
(***************************************************************************)
\* cfg.test_command
TestCommand == "c1"

\* range(3) of the repair loop, and the three transpile attempts.
RepairTries == 3
TranspileAttempts == 3

\* The trees the tools can return, by their ids: TreeA or TreeTwo from the
\* transpiler, its patches and split_ffi; TreeTwo or TreeSrc from the LLM.
\* The C tree is TreeB.
RustIds == {Digest(3), Digest(25)}
LlmIds == {Digest(25), Digest(26)}
CTreeId == Digest(4)

\* The reasons do_main passes to accept.
ReasonTranspile == PTuple(<<PStr("main"), PStr("transpile")>>)
ReasonSplitFfi == PTuple(<<PStr("main"), PStr("split_ffi")>>)
ReasonSafety(safety_try) == PTuple(<<PStr("main"), PStr("safety"), PInt(safety_try)>>)

\* Workflow.accept(code, reason), on the disk and in the history.
accept(code, reason) ==
  /\ tags' = set_tag("current", code, reason)
  /\ tagCalls' = [tagCalls EXCEPT !["current"] =
                    Append(@, [node_id |-> code, reason |-> reason])]

\* Workflow.test_op(code, c_code) begins.
test_op(p, code, c_code) == MemoEnter(p, code, c_code, TestCommand)

\* The call of test_op has returned or raised.
TestOpDone(p) == memo[p].stage = "idle" /\ pc[p] = "idle"

\* do_main returns, or an exception leaves it.
DoMainEnd(p, outcome, error) ==
  frame' = [frame EXCEPT ![p].stage = "idle", ![p].outcome = outcome, ![p].error = error]

\* The next transpile attempt after a failed one, or `return` after the last.
DoMainNextAttempt(p) ==
  IF frame[p].attempt < TranspileAttempts
  THEN frame' = [frame EXCEPT ![p].stage = "transpile", ![p].attempt = @ + 1]
  ELSE DoMainEnd(p, "returned", "")

\* do_main begins with a stored C tree; the first attempt is made when the
\* tree has more than one C file.
DoMainCall(p, n_c_code, many_c_files) ==
  /\ pc[p] = "idle"
  /\ memo[p].stage = "idle"
  /\ frame[p].stage = "idle"
  /\ n_c_code \in Stored
  /\ frame' = [frame EXCEPT ![p] =
                 [NoFrame EXCEPT !.fn = "do_main", !.stage = "transpile",
                                 !.n_c_code = n_c_code,
                                 !.attempt = IF many_c_files THEN 1 ELSE 2,
                                 !.tag_before = tagCalls["current"]]]
  /\ UNCHANGED << now, registry, disk, pc, loc, nodeCache, stampCache, result, crashes, work,
                  KEEP_WORK_DIR, memo, tagCalls, completed >>

\* w.transpile(n_c_code, ...) up to its call of self.test: the transpiler gave
\* no rust_code, or the patched tree is tested.
DoMainTranspile(p) ==
  /\ frame[p].fn = "do_main"
  /\ frame[p].stage = "transpile"
  /\ \/ /\ DoMainNextAttempt(p)
        /\ UNCHANGED << memo, result >>
     \/ \E code \in RustIds :
          /\ test_op(p, code, frame[p].n_c_code)
          /\ frame' = [frame EXCEPT ![p].stage = "transpile_test", ![p].output_code = code]
  /\ UNCHANGED << now, registry, disk, pc, loc, nodeCache, stampCache, crashes, work,
                  KEEP_WORK_DIR, tagCalls, completed >>

\* The rest of w.transpile, and w.accept(n_code, ('main', 'transpile')) when
\* it returned the tree.
DoMainTranspileTest(p) ==
  /\ frame[p].fn = "do_main"
  /\ frame[p].stage = "transpile_test"
  /\ TestOpDone(p)
  /\ IF memo[p].outcome = "error"
     THEN /\ DoMainEnd(p, "error", memo[p].error)
          /\ UNCHANGED << tags, tagCalls >>
     ELSE \E n \in {MvirNode(p, memo[p].id)} :
          IF DictGet(n, "exit_code") = PInt(0)
          THEN /\ accept(frame[p].output_code, ReasonTranspile)
               /\ frame' = [frame EXCEPT ![p].stage = "split_ffi",
                                         ![p].n_code = frame[p].output_code]
          ELSE /\ DoMainNextAttempt(p)
               /\ UNCHANGED << tags, tagCalls >>
  /\ UNCHANGED << now, registry, nodes, dirs, tmp, orphans, stamps, index, pc, loc, nodeCache,
                  stampCache, result, crashes, work, KEEP_WORK_DIR, memo, completed >>

\* n_code = w.split_ffi(n_code), and w.test(n_code, n_c_code) begins.
DoMainSplitFfi(p) ==
  /\ frame[p].fn = "do_main"
  /\ frame[p].stage = "split_ffi"
  /\ \E code \in RustIds :
       /\ test_op(p, code, frame[p].n_c_code)
       /\ frame' = [frame EXCEPT ![p].stage = "split_test", ![p].n_code = code]
  /\ UNCHANGED << now, registry, disk, pc, loc, nodeCache, stampCache, crashes, work,
                  KEEP_WORK_DIR, tagCalls, completed >>

\* Faulty variant, for comparison: the tree is accepted whatever the tests said.
DoMainSplitTest_Untested(p) ==
  /\ frame[p].fn = "do_main"
  /\ frame[p].stage = "split_test"
  /\ TestOpDone(p)
  /\ IF memo[p].outcome = "error"
     THEN /\ DoMainEnd(p, "error", memo[p].error)
          /\ UNCHANGED << tags, tagCalls >>
     ELSE /\ accept(frame[p].n_code, ReasonSplitFfi)
          /\ frame' = [frame EXCEPT ![p].stage = "safety", ![p].safety_try = 0]
  /\ UNCHANGED << now, registry, nodes, dirs, tmp, orphans, stamps, index, pc, loc, nodeCache,
                  stampCache, result, crashes, work, KEEP_WORK_DIR, memo, completed >>

\* if not w.test(n_code, n_c_code): return None; w.accept(n_code, ('main', 'split_ffi'))
DoMainSplitTest(p) ==
  /\ frame[p].fn = "do_main"
  /\ frame[p].stage = "split_test"
  /\ TestOpDone(p)
  /\ IF memo[p].outcome = "error"
     THEN /\ DoMainEnd(p, "error", memo[p].error)
          /\ UNCHANGED << tags, tagCalls >>
     ELSE \E n \in {MvirNode(p, memo[p].id)} :
          IF DictGet(n, "exit_code") = PInt(0)
          THEN /\ accept(frame[p].n_code, ReasonSplitFfi)
               /\ frame' = [frame EXCEPT ![p].stage = "safety", ![p].safety_try = 0]
          ELSE /\ DoMainEnd(p, "returned", "")
               /\ UNCHANGED << tags, tagCalls >>
  /\ UNCHANGED << now, registry, nodes, dirs, tmp, orphans, stamps, index, pc, loc, nodeCache,
                  stampCache, result, crashes, work, KEEP_WORK_DIR, memo, completed >>

\* The head of the safety loop: the loop ends, or count_unsafe is 0 and it
\* breaks, or n_new_code = w.llm_safety(n_code) and the repair loop begins.
DoMainSafety(p) ==
  /\ frame[p].fn = "do_main"
  /\ frame[p].stage = "safety"
  /\ IF frame[p].safety_try >= LlmSafetyTries
     THEN frame' = [frame EXCEPT ![p].stage = "final"]
     ELSE \/ frame' = [frame EXCEPT ![p].stage = "final"]
          \/ \E code \in LlmIds :
               frame' = [frame EXCEPT ![p].stage = "repair", ![p].n_new_code = code,
                                      ![p].repair_try = 0, ![p].n_op_check = "none"]
  /\ UNCHANGED << now, registry, disk, pc, loc, nodeCache, stampCache, result, crashes, work,
                  KEEP_WORK_DIR, memo, tagCalls, completed >>

\* One turn of the repair loop up to its call of test_op: the loop is over;
\* or the check passes; or it fails, n_new_code is repaired, and the second
\* check passes or fails (continue).
DoMainRepair(p) ==
  /\ frame[p].fn = "do_main"
  /\ frame[p].stage = "repair"
  /\ IF frame[p].repair_try >= RepairTries
     THEN /\ frame' = [frame EXCEPT ![p].stage = "safety", ![p].safety_try = @ + 1]
          /\ UNCHANGED << memo, result >>
     ELSE \/ /\ test_op(p, frame[p].n_new_code, frame[p].n_c_code)
             /\ frame' = [frame EXCEPT ![p].stage = "repair_test",
                                       ![p].n_op_check = "passed"]
          \/ \E code \in LlmIds :
               \/ /\ test_op(p, code, frame[p].n_c_code)
                  /\ frame' = [frame EXCEPT ![p].stage = "repair_test",
                                            ![p].n_new_code = code,
                                            ![p].n_op_check = "passed"]
               \/ /\ frame' = [frame EXCEPT ![p].n_new_code = code,
                                            ![p].repair_try = @ + 1,
                                            ![p].n_op_check = "failed"]
                  /\ UNCHANGED << memo, result >>
  /\ UNCHANGED << now, registry, disk, pc, loc, nodeCache, stampCache, crashes, work,
                  KEEP_WORK_DIR, tagCalls, completed >>

\* The end of a turn of the repair loop: the tests passed, the tree is
\* accepted and the loop breaks; or n_new_code = w.llm_repair(...).
DoMainRepairTest(p) ==
  /\ frame[p].fn = "do_main"
  /\ frame[p].stage = "repair_test"
  /\ TestOpDone(p)
  /\ IF memo[p].outcome = "error"
     THEN /\ DoMainEnd(p, "error", memo[p].error)
          /\ UNCHANGED << tags, tagCalls >>
     ELSE \E n \in {MvirNode(p, memo[p].id)} :
          IF DictGet(n, "exit_code") = PInt(0)
          THEN /\ accept(frame[p].n_new_code, ReasonSafety(frame[p].safety_try))
               /\ frame' = [frame EXCEPT ![p].stage = "safety",
                                         ![p].n_code = frame[p].n_new_code,
                                         ![p].safety_try = @ + 1]
          ELSE /\ \E code \in LlmIds :
                    frame' = [frame EXCEPT ![p].stage = "repair", ![p].n_new_code = code,
                                           ![p].repair_try = @ + 1]
               /\ UNCHANGED << tags, tagCalls >>
  /\ UNCHANGED << now, registry, nodes, dirs, tmp, orphans, stamps, index, pc, loc, nodeCache,
                  stampCache, result, crashes, work, KEEP_WORK_DIR, memo, completed >>

\* n_op_test = w.test_op(n_code, n_c_code) after the loops.
DoMainFinal(p) ==
  /\ frame[p].fn = "do_main"
  /\ frame[p].stage = "final"
  /\ test_op(p, frame[p].n_code, frame[p].n_c_code)
  /\ frame' = [frame EXCEPT ![p].stage = "final_test"]
  /\ UNCHANGED << now, registry, disk, pc, loc, nodeCache, stampCache, crashes, work,
                  KEEP_WORK_DIR, tagCalls, completed >>

\* The final prints, and the return.
DoMainReturn(p) ==
  /\ frame[p].fn = "do_main"
  /\ frame[p].stage = "final_test"
  /\ TestOpDone(p)
  /\ IF memo[p].outcome = "error"
     THEN DoMainEnd(p, "error", memo[p].error)
     ELSE DoMainEnd(p, "returned", "")
  /\ UNCHANGED << now, registry, disk, pc, loc, nodeCache, stampCache, result, crashes, work,
                  KEEP_WORK_DIR, memo, tagCalls, completed >>

\* The Node.new call of run_tests, when the process is in it.
TestOpNewArgs(p) ==
  IF memo[p].stage = "new" /\ result[p].op # "create"
  THEN {RunTests(memo[p].code, memo[p].test_code, memo[p].cmd)}
  ELSE {}

\* The C tree and the Rust trees are stored; one process runs do_main once.
InitMain == InitWith({TreeA, TreeB, TreeTwo, TreeSrc})

NextMain ==
  \/ /\ frame["p"].outcome = "none"
     /\ \E many_c_files \in BOOLEAN : DoMainCall("p", CTreeId, many_c_files)
  \/ DoMainTranspile("p")
  \/ DoMainTranspileTest("p")
  \/ DoMainSplitFfi("p")
  \/ DoMainSplitTest("p")
  \/ DoMainSafety("p")
  \/ DoMainRepair("p")
  \/ DoMainRepairTest("p")
  \/ DoMainFinal("p")
  \/ DoMainReturn("p")
  \/ Query("p", MemoTargets("p"))
  \/ MemoMatch("p")
  \/ MemoRun("p")
  \/ Create("p", TestOpNewArgs("p"))
  \/ MemoTagResults("p")
  \/ MemoReturn("p")

SpecMain == InitMain /\ [][NextMain]_vars

(***************************************************************************)
(* Properties.                                                             *)
(***************************************************************************)
Range(f) == {f[i] : i \in DOMAIN f}

\* The Node.new arguments whose digest is id.
ContentAt(id) == Universe[CHOOSE i \in DOMAIN Universe : NodeIdOf(Universe[i]) = id]

\* The bytes _create writes for the arguments a.
BytesOf(a) == NodeBytes(NewMetadata(a), a.body)

\* The file at the final path of id holds the whole node: the complete
\* metadata bytes, then the complete body, and it decodes.
CompleteAt(id) ==
  LET a == ContentAt(id)
      n == LoadNode(nodes[id].data)
  IN  /\ nodes[id].data = BytesOf(a)
      /\ n.ok
      /\ n.body_offset = Len(MetaBytes(NewMetadata(a)))
      /\ to_cbor(n.metadata) = to_cbor(NewMetadata(a))
      /\ SubSeq(nodes[id].data, n.body_offset + 1, Len(nodes[id].data)) = RawBytes(a.body)

\* C1: whatever the processes have done, and wherever some of them died (after
\* the touch of the nodes stamp, during the writes of the temp file, after the
\* chmod, before or after the rename), a file at a node's final path holds the
\* complete metadata bytes followed by the complete body and decodes without
\* error; partial content is only found in temp files.
C1_FinalPathIsComplete ==
  \A id \in AllIds : nodes[id].exists => CompleteAt(id)

\* A process died while it was writing a temp file, which stays in a shard
\* directory where a node is stored, and another process is in the middle of
\* the write of its own temp file.
C1_Witness ==
  /\ crashes > 0
  /\ \E id \in AllIds : nodes[id].exists /\ ShardOf(id) \in orphans
  /\ \E p \in Procs : pc[p] = "write_body" /\ tmp[p].data # <<>>

C2_Inv ==
  /\ \A p \in Procs :
       result[p].op = "create" /\ result[p].kind = "node" =>
         /\ result[p].id = Sha256(BytesOf(result[p].a))
         /\ nodes[result[p].id].exists
         /\ nodes[result[p].id].data = BytesOf(result[p].a)
         /\ Cardinality({id \in AllIds :
                           nodes[id].exists /\ nodes[id].data = BytesOf(result[p].a)}) = 1
  /\ \A p, q \in Procs :
       /\ result[p].op = "create" /\ result[p].kind = "node"
       /\ result[q].op = "create" /\ result[q].kind = "node"
       /\ result[p].a = result[q].a
       => result[p].id = result[q].id

C2_Act ==
  \A p \in Procs :
    /\ pc[p] = "idle" /\ pc'[p] = "touch" => ~nodes[loc'[p].id].exists
    /\ ( /\ pc[p] = "idle" /\ pc'[p] = "idle" /\ result'[p].op = "create"
         /\ (result'[p] # result[p] \/ nodeCache'[p] # nodeCache[p]) )
       => UNCHANGED << nodes, dirs, tmp, orphans, stamps >>

\* C2: every Node.new call that returns a node returns the digest of its
\* arguments' bytes, the same for equal arguments, and that node has exactly
\* one file on disk, which holds those bytes; a call made when the file is at
\* the final path returns in its first step without writing a node file or
\* touching the nodes stamp, and only a call that finds no file goes on to write.
C2_ContentAddressing == []C2_Inv /\ [][C2_Act]_vars

\* A process has written a node and another process, whose Node.new of the
\* same arguments found the file, has returned the same node without writing.
C2_Witness ==
  \E p, q \in Procs :
    /\ result[p].op = "create" /\ result[p].kind = "node" /\ result[p].wrote
    /\ result[q].op = "create" /\ result[q].kind = "node" /\ ~result[q].wrote
    /\ result[p].id = result[q].id
    /\ result[p].a = result[q].a

C4_Inv ==
  /\ \A p \in Procs :
       result[p].op = "create" /\ result[p].kind = "node" =>
         /\ result[p].id = NodeIdOf(result[p].a)
         /\ nodes[result[p].id].exists
         /\ CompleteAt(result[p].id)
  /\ \A a \in StoreInputs :
       Cardinality({id \in AllIds : nodes[id].exists /\ nodes[id].data = BytesOf(a)}) <= 1

C4_Act ==
  \A p \in Procs :
    result'[p].op = "get" /\ result'[p] # result[p] /\ nodes[result'[p].id].exists =>
      /\ result'[p].kind = "node"
      /\ to_cbor(result'[p].metadata) = to_cbor(NewMetadata(ContentAt(result'[p].id)))

\* C4: in every interleaving of the steps of the processes' Node.new calls (of
\* equal or of different arguments) and of get calls, without any lock, a
\* Node.new that returns gives the digest of its arguments and the complete
\* file is at its final path, a get of a NodeId whose final path exists
\* returns the node with the complete metadata, and each content has at most
\* one file, a complete one.
C4_LockFreeCreateAndGet == []C4_Inv /\ [][C4_Act]_vars

\* Two processes write the same node at once: one has renamed its temp file
\* and returned, the other holds its complete temp file and is about to
\* rename it over the first.
C4_Witness ==
  \E p, q \in Procs :
    /\ pc[p] = "rename"
    /\ result[q].op = "create" /\ result[q].kind = "node" /\ result[q].wrote
    /\ result[q].id = loc[p].id

\* Whether the value x holds the NodeId b: directly, inside a list or a tuple,
\* or as a key or a value of a dict, at any depth.
RECURSIVE Mentions(_, _)
Mentions(x, b) ==
  CASE x.t = "NodeId" -> x.v = b
    [] x.t \in {"list", "tuple"} -> \E i \in DOMAIN x.v : Mentions(x.v[i], b)
    [] x.t = "dict" ->
         \E i \in DOMAIN x.v : Mentions(x.v[i][1], b) \/ Mentions(x.v[i][2], b)
    [] OTHER -> FALSE

\* The result r of index(B) has an entry for every node that was stored when
\* the call began and whose metadata holds B.
Complete(r) ==
  \A A \in r.seen :
    Mentions(NewMetadata(ContentAt(A)), r.id) =>
      \E i \in DOMAIN r.entries : r.entries[i].node_id = A

\* Values with a NodeId in a list, in a tuple, as a dict key, as a dict value,
\* and two levels down.
NestedSamples ==
  { PNodeId(Digest(1)),
    PList(<<PStr("c1"), PNodeId(Digest(1))>>),
    PTuple(<<PNodeId(Digest(1)), PInt(0)>>),
    PDict(<< <<PNodeId(Digest(1)), PStr("c1")>> >>),
    PDict(<< <<PStr("x.rs"), PNodeId(Digest(1))>> >>),
    PList(<< PDict(<< <<PStr("x.rs"), PTuple(<<PNodeId(Digest(1))>>)>> >>) >>) }

\* C3: in one sequence of node creations and index queries, every index(B)
\* call that begins when some node is stored returns entries, among them one
\* whose source is A for every node A that was stored when the call began and
\* whose metadata holds B; and the walk of a metadata value finds a NodeId in
\* a field, in a list or a tuple, and as a key or a value of a dict.
C3_IndexCompleteness ==
  /\ \A p \in Procs :
       result[p].op = "index" /\ result[p].seen # {} =>
         result[p].kind = "entries" /\ Complete(result[p])
  /\ \A x \in NestedSamples : Digest(1) \in Range(_metadata_node_ids(x))

\* A query for the tree, made when the file, the tree and the test result
\* were all stored, has returned the entry of the test result, and a query
\* for the file returns the entry of the tree, after the clock has advanced.
C3_Witness ==
  /\ now = MaxTime
  /\ result["p"].op = "index" /\ result["p"].kind = "entries"
  /\ \/ /\ result["p"].id = NodeIdOf(TreeA)
        /\ result["p"].seen = {NodeIdOf(a) : a \in SeqInputs}
        /\ \E i \in DOMAIN result["p"].entries :
             result["p"].entries[i].key = "code"

\* C5: for every interleaving of the steps of one process's create of the tree
\* with the other process's index update, every index query for the file that
\* begins after the create has returned, in a process that has no stamp mtime
\* cached, returns an entry whose source is the tree.
C5_FreshQueryFindsNode ==
  \A p \in Procs :
    ( /\ result[p].op = "index" /\ result[p].fresh
      /\ NodeIdOf(TreeA) \in result[p].seen
      /\ result[p].id = NodeIdOf(FileA) )
    => result[p].kind = "entries" /\ Complete(result[p])

\* C6: a process that has already queried the index through its MVIR object,
\* and queries again after another process's create has returned, gets an
\* entry for every stored node that refers to the queried NodeId.
C6_CachedQueryFindsNode ==
  \A p \in Procs :
    ( /\ result[p].op = "index" /\ ~result[p].fresh
      /\ NodeIdOf(TreeA) \in result[p].seen
      /\ result[p].id = NodeIdOf(FileA) )
    => result[p].kind = "entries" /\ Complete(result[p])

\* The entries of the index shard of the code argument.
CodeEntries == ReadIndexFile(index[CodeId], 1)

\* C7: with the deterministic commands of the model, a run_tests call made
\* after a call with equal arguments has returned, in the same process or in
\* one started later, when the stored nodes matching its arguments are those
\* run_tests gives, finds exactly one node through the index, the node
\* run_tests gives for the arguments, returns it, and does not execute
\* run_tests again.
C7_MemoHit ==
  \A p \in Procs :
    LET m == memo[p]
    IN  ( /\ m.stage = "idle" /\ m.outcome # "none"
          /\ m.before
          /\ m.matching \subseteq {NodeIdOf(RunTestsNode(m.cmd))} )
        => /\ m.outcome = "node"
           /\ m.id = NodeIdOf(RunTestsNode(m.cmd))
           /\ m.found = <<m.id>>
           /\ ~m.ran

\* After run_tests has been executed for both commands, a later call with
\* "c2" has returned the stored node without executing it, at a later time.
C7_Witness ==
  /\ memo["p"].stage = "idle" /\ memo["p"].outcome = "node"
  /\ memo["p"].before /\ ~memo["p"].ran
  /\ memo["p"].cmd = "c2" /\ memo["p"].id = NodeIdOf(RunTestsNode("c2"))
  /\ tagCalls["test_passed"] # <<>>
  /\ now = MaxTime

\* C8: a call returns a node only if the node is stored, has the result kind
\* and has the value of every matched argument in the field of its name (so a
\* node that shares the code argument and differs on cmd is never returned);
\* and when the call did not execute run_tests, the index shard of the code
\* argument has an entry for the node under the key 'code'.
C8_NoFalseHit ==
  \A p \in Procs :
    LET m == memo[p]
    IN  m.stage = "idle" /\ m.outcome = "node" =>
          /\ m.id \in Stored
          /\ ContentAt(m.id).cls = node_type
          /\ LET md == NewMetadata(ContentAt(m.id))
             IN  /\ DictGet(md, "kind") = PStr("test_result_node")
                 /\ DictGet(md, "code") = PNodeId(CodeId)
                 /\ DictGet(md, "test_code") = PNodeId(TestCodeId)
                 /\ DictGet(md, "cmd") = PStr(m.cmd)
          /\ ~m.ran =>
               \E i \in DOMAIN CodeEntries :
                 CodeEntries[i] = IndexEntry(m.id, "test_result_node", "code")

\* A call with "c2" has returned a stored node without executing run_tests
\* while the node of "c1", which has the same code, was stored and indexed.
C8_Witness ==
  /\ memo["p"].stage = "idle" /\ memo["p"].outcome = "node" /\ ~memo["p"].ran
  /\ memo["p"].cmd = "c2"
  /\ NodeIdOf(RunTestsNode("c1")) \in Stored
  /\ \E i \in DOMAIN CodeEntries : CodeEntries[i].node_id = NodeIdOf(RunTestsNode("c1"))

C9_Inv ==
  \A p \in Procs :
    LET m == memo[p]
    IN  m.stage = "idle" /\ m.outcome # "none" /\ Cardinality(m.matching) > 1 =>
          m.outcome = "error" /\ m.error = "ValueError" /\ ~m.ran

C9_Act ==
  \A p \in Procs :
    memo[p].stage # "idle" /\ Cardinality(memo[p].matching) > 1 =>
      UNCHANGED << nodes, tmp, tags, tagCalls >>

\* C9: a call made when more than one stored node matches its arguments ends
\* with the ValueError of the wrapper, without having executed run_tests, and
\* no step of it writes a node file, a temp file or a tag file.
C9_Ambiguity == []C9_Inv /\ [][C9_Act]_vars

\* A call with "c2" made when two stored nodes matched has raised ValueError.
C9_Witness ==
  /\ memo["p"].stage = "idle"
  /\ memo["p"].outcome = "error" /\ memo["p"].error = "ValueError"
  /\ Cardinality(memo["p"].matching) = 2
  /\ Len(memo["p"].found) = 2

\* C10: after N >= 1 set_tag calls on a name, tag returns the NodeId of the
\* last of them, which is the node_id of the last entry of the reflog, and
\* tag_reflog returns N entries, the i-th with the NodeId and the reason of
\* the i-th call.
C10_TagAndReflog ==
  \A p \in Procs :
    LET r == result[p]
        N == Len(r.calls)
    IN  /\ r.op = "tag" /\ N >= 1 =>
             /\ r.kind = "node_id"
             /\ r.id = r.calls[N].node_id
        /\ r.op = "tag_reflog" /\ N >= 1 =>
             /\ r.kind = "entries"
             /\ Len(r.entries) = N
             /\ \A i \in 1..N :
                  /\ r.entries[i].node_id = r.calls[i].node_id
                  /\ r.entries[i].reason = r.calls[i].reason
                  /\ r.entries[i].timestamp = DatetimeNow

\* The reflog of a name that was set MaxLog times, to different nodes and
\* with different reasons, has been read.
C10_Witness ==
  /\ result["p"].op = "tag_reflog" /\ result["p"].kind = "entries"
  /\ Len(result["p"].entries) = MaxLog
  /\ result["p"].entries[1].node_id # result["p"].entries[MaxLog].node_id
  /\ result["p"].entries[1].reason = PNone
  /\ result["p"].entries[MaxLog].reason = PStr("commit")

IsPrefix(s, t) == Len(s) <= Len(t) /\ SubSeq(t, 1, Len(s)) = s

\* C11: in every step of the processes (steps of set_tag calls on the same
\* tag by two processes, reads of the log, the death of a process inside
\* set_tag), the bytes of a tag file after the step begin with
\* its bytes before the step, and when the log could be read before the step
\* it can be read after it and the entries read before are the first entries
\* read after: no entry is edited, reordered, dropped or compacted.
C11_AppendOnly ==
  [][ \A n \in TagNames :
        /\ tags[n].exists => tags'[n].exists
        /\ IsPrefix(tags[n].data, tags'[n].data)
        /\ LET before == ReadReflog(tags[n].data, 1)
               after == ReadReflog(tags'[n].data, 1)
           IN  before.ok => after.ok /\ IsPrefix(before.entries, after.entries) ]_vars

\* Both processes are inside set_tag on the same tag, one about to append its
\* record, after a process died and after two records of different calls
\* were appended.
C11_Witness ==
  /\ crashes > 0
  /\ pc["p"] = "tag_close" /\ pc["q"] = "tag_write"
  /\ Len(tagCalls[LogName]) >= 2
  /\ tagCalls[LogName][1] # tagCalls[LogName][2]

\* The kind under which the node id was stored.
StoredKind(id) == KIND(ContentAt(id).cls)

\* Where the chain of registered migrations leads from kind k, followed for
\* at most fuel migrations: to a registered kind, to a kind that has no
\* migration, to a migration that deletes the kind, or round a cycle.
RECURSIVE Walk(_, _, _)
Walk(reg, k, fuel) ==
  IF k \in DOMAIN NODE_KIND_MAP THEN [end |-> "registered", kind |-> k]
  ELSE IF k \notin DOMAIN reg THEN [end |-> "unknown", kind |-> k]
  ELSE IF reg[k].fn = "del_kind" THEN [end |-> "no kind", kind |-> k]
  ELSE IF fuel = 0 THEN [end |-> "cycle", kind |-> k]
  ELSE Walk(reg,
            IF reg[k].fn = "migrate_compile_commands_op" THEN "compile_commands_op_v2"
            ELSE reg[k].to,
            fuel - 1)

DictEq(a, b) ==
  a.t = "dict" /\ b.t = "dict" /\ Len(a.v) = Len(b.v) /\ Range(a.v) = Range(b.v)

\* C14: every get of a node stored under compile_commands_op (with
\* compile_commands None or a NodeId) returns a CompileCommandsOpNode whose
\* metadata equals, as a dict, the metadata CompileCommandsOpNode.new builds
\* from the same c_code, exit_code and compile_commands and cmds = [cmd], and
\* passes the schema check of CompileCommandsOpNode, as the metadata of the
\* constructed node does; the two nodes held by the process have equal
\* metadata.
C14_MigrationEquivalence ==
  \A cc \in {PNone, PNodeId(Digest(1))} :
    LET old == NodeIdOf(CompileCommandsOld(cc))
        new == NodeIdOf(CompileCommandsNew(cc))
        direct == NewMetadata(CompileCommandsNew(cc))
        r == result["p"]
    IN  /\ _check_metadata("CompileCommandsOpNode", direct) = "ok"
        /\ r.op = "get" /\ r.id = old =>
             /\ r.kind = "node" /\ r.cls = "CompileCommandsOpNode"
             /\ DictEq(r.metadata, direct)
             /\ to_cbor(r.metadata) = to_cbor(direct)
             /\ _check_metadata("CompileCommandsOpNode", r.metadata) = "ok"
        /\ InCache("p", old) /\ InCache("p", new) =>
             DictEq(CacheGet("p", old), CacheGet("p", new))

\* The process has constructed the node of the current kind with
\* compile_commands a NodeId, and then loaded the node stored under the
\* retired kind; it holds both.
C14_Witness ==
  /\ result["p"].op = "get" /\ result["p"].kind = "node"
  /\ result["p"].id = NodeIdOf(CompileCommandsOld(PNodeId(Digest(1))))
  /\ InCache("p", NodeIdOf(CompileCommandsNew(PNodeId(Digest(1)))))
  /\ nodes[NodeIdOf(CompileCommandsNew(PNodeId(Digest(1))))].exists

\* How many entries of the index file of B have the source A, and how many
\* references to B the metadata of A holds.
RefCount(A, B) ==
  Len(SelectSeq(ReadIndexFile(index[B], 1), LAMBDA e : e.node_id = A))
Expected(A, B) ==
  Len(SelectSeq(NodeRefs(A, NewMetadata(ContentAt(A))), LAMBDA ref : ref[1] = B))

\* C15: in one process that creates nodes and queries the index, whether the
\* clock advances between the operations or not, the index never holds more
\* entries from a node A to a NodeId B than the metadata of A has references
\* to B, and holds none from a node that is not stored; and when an index
\* query has returned its entries, the index holds exactly that many for every node A
\* that was stored when the query began: no node is skipped and none is
\* indexed twice.
C15_ExactlyOnce ==
  /\ \A A \in {NodeIdOf(a) : a \in SeqInputs}, B \in AllIds :
       /\ RefCount(A, B) <= Expected(A, B)
       /\ RefCount(A, B) > 0 => nodes[A].exists
  /\ result["p"].op = "index" /\ result["p"].kind = "entries" =>
       \A A \in result["p"].seen, B \in AllIds : RefCount(A, B) = Expected(A, B)

\* An index update sees again a node that the update before it processed,
\* whose mtime equals the mtime the index stamp had, together with a node of
\* the same mtime that no update has processed.
C15_Witness ==
  /\ pc["p"] = "upd_node"
  /\ loc["p"].prev_mtime.some
  /\ \E A \in loc["p"].todo \cap loc["p"].prev_nodes :
       /\ nodes[A].mtime = loc["p"].prev_mtime.t
       /\ Expected(A, NodeIdOf(FileA)) > 0
       /\ \E A2 \in loc["p"].todo \ loc["p"].prev_nodes :
            nodes[A2].mtime = nodes[A].mtime

\* How many of the entries have the source A.
CountFrom(entries, A) == Len(SelectSeq(entries, LAMBDA e : e.node_id = A))

\* C16: whether or not the index was lost before it, an index query for B
\* that returns entries returns, from every node A that was stored when it
\* began, as many entries as the metadata of A has references to B, and no
\* other entry: what the index maintained update after update holds for
\* the same stored nodes.
C16_RebuiltIndexIsComplete ==
  result["p"].op = "index" /\ result["p"].kind = "entries" =>
    \A A \in AllIds :
      CountFrom(result["p"].entries, A) =
        IF A \in result["p"].seen THEN Expected(A, result["p"].id) ELSE 0

\* C17: between the touch of the nodes stamp and the rename no file is at
\* the node's final path, so none is there when the process dies; and once
\* a process has died there, every index query returns entries (it raises
\* nothing), with no entry from a node that is not stored and, from every
\* node A that was stored when it began (a node created again after the
\* crash included), as many entries as A has references to the queried id;
\* and a create raises only when the write itself fails.
C17_CrashInCreateIsSafe ==
  /\ pc["p"] \in CreateWindow => ~nodes[loc["p"].id].exists
  /\ crashes > 0 =>
       /\ result["p"].op = "index" =>
            /\ result["p"].kind = "entries"
            /\ \A A \in AllIds :
                 CountFrom(result["p"].entries, A) =
                   IF A \in result["p"].seen THEN Expected(A, result["p"].id) ELSE 0
       /\ result["p"].op = "create" /\ result["p"].kind = "error" =>
            result["p"].error = "OSError"

\* C18: every node in the cache of a process has its file at its final path,
\* holding the whole node, and the cached metadata is the metadata of that
\* file; a process that is in _create between the look-ups and the rename
\* does not hold the node in its cache; and after a create that raised
\* because the write failed, the process does not hold the node in its cache
\* and has no temp file.
C18_CachedNodesAreStored ==
  \A p \in Procs :
    /\ \A n \in nodeCache[p] :
         /\ nodes[n.id].exists
         /\ CompleteAt(n.id)
         /\ to_cbor(n.metadata) = to_cbor(NewMetadata(ContentAt(n.id)))
    /\ pc[p] \in {"touch"} \cup CreateWindow => ~InCache(p, loc[p].id)
    /\ result[p].op = "create" /\ result[p].kind = "error" /\ result[p].error = "OSError" =>
         /\ ~InCache(p, result[p].id)
         /\ ~tmp[p].exists

\* The write of a node failed in one process, which holds nothing in its
\* cache, and the node is not stored; another process holds in its cache a
\* node that its create did not write.
C18_Witness ==
  \E p, q \in Procs :
    /\ p # q
    /\ result[q].op = "create" /\ result[q].error = "OSError"
    /\ ~nodes[result[q].id].exists
    /\ nodeCache[q] = {}
    /\ result[p].op = "create" /\ result[p].kind = "node" /\ ~result[p].wrote
    /\ InCache(p, result[p].id)

\* The keys of the metadata Node.new builds from the arguments a are not the
\* fields of the class.
KeysDiffer(a) == DictKeys(NewMetadata(a)) # DOMAIN _metadata_field_types(a.cls)

\* C19: a Node.new call whose metadata has a missing or an unexpected key
\* raises ValueError, and a load of a stored node whose metadata has such
\* keys raises; the step that raises leaves the node files, the directories,
\* the temp files, the stamps and the cache of the process as they were; and
\* no cache ever holds a node with such metadata.
C19_KeySetMismatchRejected ==
  [][\A p \in Procs :
       /\ (/\ result'[p] # result[p]
           /\ result'[p].op = "create"
           /\ result'[p].a # NoArgs
           /\ KeysDiffer(result'[p].a)) =>
            /\ result'[p].kind = "error"
            /\ result'[p].error = "ValueError"
            /\ UNCHANGED << disk, nodeCache >>
       /\ (/\ result'[p] # result[p]
           /\ result'[p].op = "get"
           /\ nodes[result'[p].id].exists
           /\ KeysDiffer(ContentAt(result'[p].id))) =>
            /\ result'[p].kind = "error"
            /\ UNCHANGED << disk, nodeCache >>
       /\ \A n \in nodeCache'[p] : DictKeys(n.metadata) = DictKeys(NewMetadata(ContentAt(n.id)))
                                     /\ ~KeysDiffer(ContentAt(n.id))]_vars

\* One process has called TreeNode.new with an unexpected keyword and got
\* ValueError; the other has tried to load the stored tree that lacks
\* `files` and got an exception; and a valid node has been created.
C19_Witness ==
  \E p, q \in Procs :
    /\ p # q
    /\ result[p].op = "create" /\ result[p].a = TreeExtra /\ result[p].error = "ValueError"
    /\ result[q].op = "get" /\ result[q].id = NodeIdOf(TreeMissing) /\ result[q].kind = "error"
    /\ nodes[NodeIdOf(FileB)].exists

\* The paths of the `files` of a tree's metadata are relative and normalized,
\* and none goes up with '..'.
PathsValid(metadata) ==
  LET files == DictGet(metadata, "files")
  IN  \A i \in DOMAIN files.v :
        /\ ~isabs(files.v[i][1].v)
        /\ normpath(files.v[i][1].v) = split(files.v[i][1].v)
        /\ \A j \in DOMAIN split(files.v[i][1].v) : split(files.v[i][1].v)[j] # ".."

\* C20: every tree node in the store has relative, normalized paths in its
\* files map; a TreeNode.new call with an absolute or a non-normalized path
\* raises, and so does the load of a stored tree with such a path.
C20_TreePathsValid ==
  /\ \A id \in AllIds :
       nodes[id].exists /\ LoadNode(nodes[id].data).ok
         /\ LoadNode(nodes[id].data).cls = "TreeNode" =>
           PathsValid(LoadNode(nodes[id].data).metadata)
  /\ \A p \in Procs :
       result[p].op \in {"create", "get"} /\ result[p].kind = "node"
         /\ DictGet(result[p].metadata, "kind") = PStr("tree") =>
           PathsValid(result[p].metadata)

\* The value x is of the declared type ty: for a Union, of one of its variants.
RECURSIVE Conforms(_, _)
Conforms(ty, x) ==
  CASE ty.o \in {"none", "bool", "int", "float", "str", "bytes"} -> IsInstance(x, ty.o)
    [] ty.o = "list" -> x.t = "list" /\ \A i \in DOMAIN x.v : Conforms(ty.e, x.v[i])
    [] ty.o = "tuple" ->
         /\ x.t \in {"list", "tuple"}
         /\ Len(ty.es) = Len(x.v)
         /\ \A i \in DOMAIN x.v : Conforms(ty.es[i], x.v[i])
    [] ty.o = "dict" ->
         x.t = "dict" /\ \A i \in DOMAIN x.v :
            Conforms(ty.k, x.v[i][1]) /\ Conforms(ty.w, x.v[i][2])
    [] ty.o = "Union" -> \E j \in DOMAIN ty.args : Conforms(ty.args[j], x)
    [] ty.o = "Any" -> TRUE
    [] ty.o = "NodeId" -> x.t = "NodeId"

\* Every field of the metadata holds a value of its declared type.
FieldsConform(cls, metadata) ==
  \A i \in DOMAIN metadata.v :
    Conforms(_metadata_field_types(cls)[metadata.v[i][1].v], metadata.v[i][2])

\* C21: a Node.new call in which a field holds a value that is not of the
\* declared type of the field raises, whatever the declared type (a Union
\* included); and a load returns, for every field, the value the node was
\* created with.
C21_TypeMismatchRejected ==
  /\ result["p"].op = "create" /\ result["p"].a # NoArgs
       /\ ~FieldsConform(result["p"].a.cls, NewMetadata(result["p"].a)) =>
         result["p"].kind = "error"
  /\ \A id \in AllIds :
       nodes[id].exists => FieldsConform(ContentAt(id).cls, NewMetadata(ContentAt(id)))
  /\ result["p"].op = "get" /\ result["p"].kind = "node" =>
       to_cbor(result["p"].metadata) = to_cbor(NewMetadata(ContentAt(result["p"].id)))

\* The node stored at id cannot be loaded: its kind is not registered, or
\* its metadata has not the keys of its kind.
Unloadable(id) ==
  \/ ContentAt(id).cls \in DOMAIN RetiredKinds
  \/ KeysDiffer(ContentAt(id))

\* C22: a get of an id that is not in the cache of the process raises
\* FileNotFoundError when no file is at the final path of the id, and
\* another exception when the file is there and holds a node of an unknown
\* kind or with the wrong keys; the step that raises leaves the disk and
\* the cache of the process as they were.
C22_GetErrors ==
  [][\A p \in Procs :
       result'[p] # result[p] /\ result'[p].op = "get" /\ ~InCache(p, result'[p].id) =>
         /\ ~nodes[result'[p].id].exists =>
              /\ result'[p].kind = "error"
              /\ result'[p].error = "FileNotFoundError"
              /\ UNCHANGED << disk, nodeCache >>
         /\ nodes[result'[p].id].exists /\ Unloadable(result'[p].id) =>
              /\ result'[p].kind = "error"
              /\ result'[p].error # "FileNotFoundError"
              /\ result'[p].error \in {"KeyError: unknown node kind", "malformed: metadata"}
              /\ UNCHANGED << disk, nodeCache >>
         /\ result'[p].kind = "error" => UNCHANGED << disk, nodeCache >>]_vars

\* One process got FileNotFoundError for an id whose shard directory does
\* not exist, the other an unknown-kind error for a stored node; neither
\* holds a node in its cache.
C22_Witness ==
  \E p, q \in Procs :
    /\ result[p].op = "get" /\ result[p].error = "FileNotFoundError"
    /\ ~dirs[ShardOf(result[p].id)].exists
    /\ result[q].op = "get" /\ result[q].error = "KeyError: unknown node kind"
    /\ nodes[result[q].id].exists
    /\ nodeCache[p] = {} /\ nodeCache[q] = {}

\* The stored ids whose hexadecimal form begins with s, in any letter case.
StoredWithPrefix(s) == {id \in Stored : startswith(NodeId_str(id), lower(s))}

\* C23: a call of node_ids_with_prefix returns the stored ids whose
\* hexadecimal form begins with the prefix, and the resolver returns an id
\* when exactly one stored id begins with the prefix, that id, and raises
\* otherwise, whatever temp files the shard directories hold.
C23_PrefixResolutionExact ==
  [][\A p \in Procs :
       /\ result'[p] # result[p] /\ result'[p].op = "node_ids_with_prefix" =>
            /\ result'[p].kind = "ids"
            /\ result'[p].seen = StoredWithPrefix(result'[p].detail)
       /\ result'[p] # result[p] /\ result'[p].op = "resolve" =>
            IF Cardinality(StoredWithPrefix(result'[p].detail)) = 1
            THEN /\ result'[p].kind = "node_id"
                 /\ result'[p].id \in StoredWithPrefix(result'[p].detail)
            ELSE result'[p].kind = "error"]_vars

\* C24: an index query for an id that no stored node names returns no
\* entry and does not raise, be the store one in which no node was ever
\* created, one in which a first create died after it touched the nodes
\* stamp, or one that has no index file for the id.
C24_UnreferencedQueryIsEmpty ==
  result["p"].op = "index" /\ (\A A \in Stored : Expected(A, result["p"].id) = 0) =>
    /\ result["p"].kind = "entries"
    /\ result["p"].entries = <<>>

\* C25: every entry an index query for B returns names a stored node that
\* loads, whose kind is the kind of the entry and whose metadata field of
\* the entry's key holds B; and a query for the tree T that began when the
\* test result R, whose code is T and whose test_code is another tree, was
\* stored returns the one entry (R, test_result_node, code).
C25_IndexSoundAndExact ==
  /\ result["p"].op = "index" /\ result["p"].kind = "entries" =>
       \A i \in DOMAIN result["p"].entries :
         LET e == result["p"].entries[i]
             n == LoadNode(nodes[e.node_id].data)
         IN  /\ nodes[e.node_id].exists
             /\ n.ok
             /\ KIND(n.cls) = e.kind
             /\ HasKey(n.metadata, e.key)
             /\ result["p"].id \in Range(_metadata_node_ids(DictGet(n.metadata, e.key)))
  /\ result["p"].op = "index" /\ result["p"].id = NodeIdOf(TreeA)
       /\ NodeIdOf(ExactR) \in result["p"].seen =>
       /\ result["p"].kind = "entries"
       /\ result["p"].entries = << IndexEntry(NodeIdOf(ExactR), "test_result_node", "code") >>

\* Both trees and the test result are stored, and a query for the tree that
\* is the code of the test result has returned one entry.
C25_Witness ==
  /\ result["p"].op = "index" /\ result["p"].id = NodeIdOf(TreeA)
  /\ Len(result["p"].entries) = 1
  /\ {NodeIdOf(TreeA), NodeIdOf(TreeB), NodeIdOf(ExactR)} \subseteq result["p"].seen

\* Equality of Python values: dicts are equal when they have the same keys
\* with equal values, in whatever order they were built.
RECURSIVE PyEq(_, _)
PyEq(a, b) ==
  IF a.t = "dict" /\ b.t = "dict"
  THEN /\ Len(a.v) = Len(b.v)
       /\ \A i \in DOMAIN a.v : \E j \in DOMAIN b.v :
            a.v[i][1] = b.v[j][1] /\ PyEq(a.v[i][2], b.v[j][2])
  ELSE IF a.t \in {"list", "tuple"} /\ a.t = b.t
  THEN Len(a.v) = Len(b.v) /\ \A i \in DOMAIN a.v : PyEq(a.v[i], b.v[i])
  ELSE a = b

\* The Node.new calls of OrderInputs that pass equal metadata and body.
SameNode(a, b) == PyEq(NewMetadata(a), NewMetadata(b)) /\ a.body = b.body

\* C26: metadata values that are equal as dicts, built in different orders
\* at the top level or in a nested dict, serialize to the same bytes and
\* have the same NodeId; a create of one returns that id and the file at
\* its path holds the bytes of the other, and the store never holds more
\* node files than there are different nodes.
C26_CanonicalOrdering ==
  /\ \A a, b \in OrderInputs :
       SameNode(a, b) =>
         /\ MetaBytes(NewMetadata(a)) = MetaBytes(NewMetadata(b))
         /\ NodeIdOf(a) = NodeIdOf(b)
  /\ \A p \in Procs :
       result[p].op = "create" /\ result[p].kind = "node" =>
         \A b \in OrderInputs :
           SameNode(result[p].a, b) =>
             /\ result[p].id = NodeIdOf(b)
             /\ nodes[result[p].id].data = BytesOf(b)
  /\ Cardinality(Stored) <=
       Cardinality({ {b \in OrderInputs : SameNode(a, b)} : a \in OrderInputs })

\* The two processes created the tree of two files, one with the files dict
\* in the one order, the other in the other; both got the same id, and only
\* the first wrote the node file.
C26_Witness ==
  \E p, q \in Procs :
    /\ result[p].op = "create" /\ result[p].kind = "node" /\ result[p].a = TreeTwo
    /\ result[q].op = "create" /\ result[q].kind = "node" /\ result[q].a = TreeTwoReversed
    /\ result[p].id = result[q].id
    /\ result[p].wrote /\ ~result[q].wrote
    /\ NewMetadata(result[p].a) # NewMetadata(result[q].a)

\* The processes that are in the body of a with lock_work_dir statement.
InWorkDir == {p \in Procs : pc[p] = "in_work_dir"}

\* C27: after every step at most one process is inside the with statement,
\* the work directory exists, was made by that process and holds only files
\* that process wrote; and a lock_work_dir call made while another process
\* is inside raises, does not enter, and leaves the directory as it was.
C27_WorkDirMutualExclusion ==
  [][/\ Cardinality(InWorkDir') <= 1
     /\ \A p \in InWorkDir' :
          /\ work'.exists
          /\ work'.made_by = p
          /\ \A f \in work'.files : f[1] = p
     /\ \A p \in Procs, q \in InWorkDir :
          /\ p # q /\ pc[p] = "idle"
          /\ \/ result'[p] # result[p] /\ result'[p].op = "lock_work_dir"
             \/ pc'[p] = "in_work_dir"
          =>
            /\ result'[p] = Raised("lock_work_dir", NoId, "FileExistsError")
            /\ pc'[p] = "idle"
            /\ work' = work]_vars

\* One process is inside the with statement and has checked a file out; the
\* other called lock_work_dir and got FileExistsError.
C27_Witness ==
  \E p, q \in Procs :
    /\ pc[p] = "in_work_dir" /\ work.files = {<<p, "x.rs">>}
    /\ pc[q] = "idle" /\ result[q] = Raised("lock_work_dir", NoId, "FileExistsError")

\* C28: while one of the two processes has made no index query, the index
\* holds from a node A to a NodeId B no more entries than the metadata of A
\* has references to B, as after the updates of one process; with both
\* processes updating it holds at most one more copy of each, and the
\* witness shows that it does hold one.
C28_DuplicatesNeedTwoUpdaters ==
  \A A, B \in {NodeIdOf(FileA), NodeIdOf(TreeA)} :
    /\ RefCount(A, B) <= Cardinality(Procs) * Expected(A, B)
    /\ (\E q \in Procs : pc[q] = "idle" /\ \A n \in StampNames : ~stampCache[q][n].set) =>
         RefCount(A, B) <= Expected(A, B)

\* Both processes have updated the index over the same two nodes and have
\* returned from their queries; the index file of the file node holds the
\* entry of the tree twice, and the later query returned it twice.
C28_Witness ==
  /\ \A p \in Procs : pc[p] = "idle" /\ result[p].op = "index" /\ result[p].kind = "entries"
  /\ Expected(NodeIdOf(TreeA), NodeIdOf(FileA)) = 1
  /\ RefCount(NodeIdOf(TreeA), NodeIdOf(FileA)) = 2
  /\ \E p \in Procs :
       result[p].entries = << IndexEntry(NodeIdOf(TreeA), "tree", "files"),
                              IndexEntry(NodeIdOf(TreeA), "tree", "files") >>

\* C29: a set_tag call on a name adds one entry to the reflog of the name,
\* with the NodeId and the reason of the call, after the bytes the tag file
\* held; it leaves the file of every other tag, the node files, the shard
\* directories, the temp files, the stamps and the index files as they
\* were, and it does not raise, be the NodeId that of a stored node or not.
C29_SetTagFrame ==
  [][\A p \in Procs, name \in TagNames :
       result'[p].op = "set_tag" /\ result'[p].name = name /\ tagCalls'[name] # tagCalls[name] =>
         LET before == ReadReflog(tags[name].data, 1)
             after == ReadReflog(tags'[name].data, 1)
             call == tagCalls'[name][Len(tagCalls'[name])]
         IN  /\ result'[p].kind # "error"
             /\ IsPrefix(tags[name].data, tags'[name].data)
             /\ before.ok /\ after.ok
             /\ Len(after.entries) = Len(before.entries) + 1
             /\ after.entries[Len(after.entries)].node_id = call.node_id
             /\ after.entries[Len(after.entries)].reason = call.reason
             /\ \A n \in TagNames \ {name} : tags'[n] = tags[n]
             /\ UNCHANGED << nodes, dirs, tmp, orphans, stamps, index >>]_vars

\* The tree is stored and indexed; one tag was set to it and then to a node
\* that is not stored, the other tag was set once.
C29_Witness ==
  /\ nodes[Digest(3)].exists /\ ~nodes[Digest(2)].exists
  /\ stamps["index"].exists
  /\ Len(ReadReflog(tags["test_results"].data, 1).entries) = 2
  /\ tag("test_results") = Digest(2)
  /\ Len(ReadReflog(tags["test_passed"].data, 1).entries) = 1
  /\ result["p"].op = "set_tag"

\* C30: no step of a creation, a query or an index update takes an entry
\* out of an index file or puts one before those it holds; and the entries
\* a query for B returns begin with the entries that the last query for B of
\* the other process returned, earlier.
C30_EntriesNeverRemoved ==
  [][/\ \A B \in AllIds :
          IsPrefix(ReadIndexFile(index[B], 1), ReadIndexFile(index'[B], 1))
     /\ \A p, q \in Procs :
          /\ result[p].op = "index" /\ result[p].kind = "entries"
          /\ result'[q] # result[q]
          /\ result'[q].op = "index" /\ result'[q].kind = "entries"
          /\ result'[q].id = result[p].id
          => IsPrefix(result[p].entries, result'[q].entries)]_vars

\* A query of one process returned one entry; after the second tree was
\* created, a query of the other process for the same id returned two.
C30_Witness ==
  \E p, q \in Procs :
    /\ result[p].op = "index" /\ result[q].op = "index" /\ result[p].id = result[q].id
    /\ Len(result[p].entries) = 1 /\ Len(result[q].entries) = 2
    /\ result[q].entries[1] = result[p].entries[1]
    /\ result[q].entries[2].node_id # result[p].entries[1].node_id

\* A step in which process p calls lock_work_dir.
AcquireStep(p) ==
  /\ pc[p] = "idle"
  /\ \/ result'[p] # result[p] /\ result'[p].op = "lock_work_dir"
     \/ pc'[p] = "in_work_dir"

\* C31: a process that leaves the with statement with KEEP_WORK_DIR unset
\* removes the work directory before it goes on, and with the flag set
\* leaves it as it is; the death of a process leaves the directory as it
\* is; the directory goes away only when its holder removes it; and a
\* lock_work_dir call enters when the directory does not exist and raises
\* FileExistsError, changing nothing, when it does, also when no process is
\* inside.
C31_WorkDirReleased ==
  [][/\ \A p \in Procs :
          /\ pc[p] = "in_work_dir" /\ pc'[p] # "in_work_dir" /\ crashes' = crashes =>
               IF KEEP_WORK_DIR[p]
               THEN pc'[p] = "idle" /\ work' = work /\ work'.exists
               ELSE pc'[p] = "rmtree" /\ work'.exists /\ work'.files = {}
          /\ pc[p] = "rmtree" /\ pc'[p] = "idle" /\ crashes' = crashes => ~work'.exists
          /\ AcquireStep(p) =>
               IF work.exists
               THEN /\ result'[p] = Raised("lock_work_dir", NoId, "FileExistsError")
                    /\ pc'[p] = "idle" /\ work' = work
               ELSE /\ pc'[p] = "in_work_dir"
                    /\ work'.exists /\ work'.made_by = p /\ work'.files = {}
     /\ crashes' # crashes => work' = work
     /\ work.exists /\ ~work'.exists =>
          \E p \in Procs : pc[p] = "rmtree" /\ pc'[p] = "idle" /\ work.made_by = p
                           /\ crashes' = crashes]_vars

\* One process checked a file out into the work directory and left the with
\* statement, which removed the directory; the other then entered, and the
\* directory it made holds no file.
C31_Witness ==
  \E p, q \in Procs :
    /\ pc[p] = "idle" /\ result[p].op = "checkout_file" /\ result[p].kind # "error"
    /\ ~KEEP_WORK_DIR[p]
    /\ pc[q] = "in_work_dir" /\ work.exists /\ work.made_by = q /\ work.files = {}

\* The files dict of the stored tree id.
FilesAt(id) == DictGet(LoadNode(nodes[id].data).metadata, "files")

\* run_rewrite has returned to p: the output tree has the paths of the input
\* tree, and the paths that do not match glob_filter carry the same NodeId.
OnlyOfferedChanged(p) ==
  frame[p].fn = "run_rewrite" /\ frame[p].outcome = "returned" =>
    /\ DictKeys(FilesAt(frame[p].output_code)) = DictKeys(FilesAt(frame[p].input))
    /\ \A path \in DictKeys(FilesAt(frame[p].input)) :
         ~glob_match(path, frame[p].glob_filter) =>
           DictGet(FilesAt(frame[p].output_code), path) = DictGet(FilesAt(frame[p].input), path)

\* The call of p has created no TreeNode and no LlmOpNode, has not moved
\* op_history, and has not returned.
NothingButFiles(p) ==
  /\ frame[p].made \subseteq {"FileNode"}
  /\ tagCalls["op_history"] = frame[p].tag_before
  /\ frame[p].outcome # "returned"

\* Some block of `blocks` names a path that emit_files did not emit for the
\* call of p.
NamesUnemitted(p, blocks) ==
  \E i \in DOMAIN blocks :
    ~InMap(emit_files(FilesAt(frame[p].input), frame[p].glob_filter), blocks[i].path)

\* C32: run_rewrite changes only files offered to the LLM (same paths in the
\* output tree, same NodeId for every path that does not match glob_filter),
\* and a response with a block that extract_files accepts and whose path was
\* not emitted aborts the rewrite before any TreeNode or LlmOpNode is
\* created and before op_history is moved.
C32_OnlyOfferedFilesChange ==
  \A p \in Procs :
    /\ OnlyOfferedChanged(p)
    /\ frame[p].fn = "run_rewrite" /\ NamesUnemitted(p, extract_files(frame[p].output.blocks))
         => NothingButFiles(p)

\* C32 witness: after a rewrite that moved op_history, a rewrite was aborted
\* at its second block, the first being stored, and a rewrite that returned.
C32_Witness ==
  \E p \in Procs :
    /\ frame[p].fn = "run_rewrite"
    /\ frame[p].outcome = "error"
    /\ frame[p].error = "AssertionError"
    /\ frame[p].made = {"FileNode"}
    /\ Len(frame[p].output.blocks) = 2
    /\ tagCalls["op_history"] # <<>>
    /\ NodeIdOf(TreeSrcOut) \in Stored

\* C32 as stated, for every block of the response that names a path: the
\* blocks extract_files rejects do not abort anything.
C32_AnyUnemittedPathAborts ==
  \A p \in Procs :
    /\ OnlyOfferedChanged(p)
    /\ frame[p].fn = "run_rewrite" /\ NamesUnemitted(p, frame[p].output.blocks)
         => NothingButFiles(p)

\* C33: after an index update was interrupted between its appends and the
\* rewrite of the index stamp, a later index query that completes leaves
\* each reference of each node that was stored when it began recorded in the
\* index exactly once.
C33_NoLastingDuplicate ==
  \A p \in Procs :
    result[p].op = "index" /\ result[p].kind = "entries" =>
      \A A \in result[p].seen, B \in AllIds : RefCount(A, B) = Expected(A, B)

\* C34: the wrapper raises the ambiguity error only when two distinct stored
\* nodes matched the arguments when the call began, and a call that began
\* with exactly one matching stored node ends in a cache hit (it returns
\* that node and does not run the function).
C34_AmbiguityNeedsTwoNodes ==
  \A p \in Procs :
    /\ memo[p].outcome = "error" /\ memo[p].error = "ValueError" =>
         Cardinality(memo[p].matching) >= 2
    /\ memo[p].stage = "idle" /\ memo[p].outcome # "none"
         /\ Cardinality(memo[p].matching) = 1 =>
         memo[p].outcome = "node" /\ memo[p].id \in memo[p].matching /\ ~memo[p].ran

\* C35: a get that returns a node returns the class the node was created
\* with and, field by field, the metadata it was created with; the bytes of
\* the file after the metadata are the body it was created with; and the
\* digest of the loaded metadata and body is the id of the node.
C35_CreateGetRoundTrip ==
  \A p \in Procs :
    result[p].op = "get" /\ result[p].kind = "node" =>
      LET id == result[p].id
          a == ContentAt(id)
          n == LoadNode(nodes[id].data)
          body == SubSeq(nodes[id].data, n.body_offset + 1, Len(nodes[id].data))
      IN  /\ n.cls = a.cls
          /\ DictKeys(result[p].metadata) = DictKeys(NewMetadata(a))
          /\ \A k \in DictKeys(NewMetadata(a)) :
               PyEq(DictGet(result[p].metadata, k), DictGet(NewMetadata(a), k))
          /\ body = RawBytes(a.body)
          /\ Sha256(MetaBytes(result[p].metadata) \o body) = id

\* What the two stamp files say: the index stamp is absent, or it is not
\* newer than the nodes stamp.
StampsCallForUpdate ==
  \/ ~stamps["index"].exists
  \/ stamps["nodes"].exists /\ stamps["nodes"].mtime >= stamps["index"].mtime

C37_RenderVisitsEachTreeOnce ==
  \A p \in Procs :
    frame[p].fn = "render" =>
      \A i, j \in DOMAIN frame[p].trees : frame[p].trees[i] = frame[p].trees[j] => i = j

\* The stored test results for (code, test_code, cmd) with the exit code.
ResultsWith(code, test_code, cmd, exit_code) ==
  {id \in StoredMatches(code, test_code, cmd) :
     DictGet(LoadNode(nodes[id].data).metadata, "exit_code") = PInt(exit_code)}

\* C38: when do_main appends an entry to the `current` tag, the store holds a
\* TestResultNode with exit_code 0 whose code is the entry's tree, whose
\* test_code is the C tree of the run and whose cmd is the configured test
\* command; it holds no failing result for them, and a tree accepted in the
\* safety loop passed its last cargo check.
C38_CurrentOnlyPassing ==
  [][ Len(tagCalls'["current"]) > Len(tagCalls["current"]) =>
        \E p \in Procs :
          LET e == tagCalls'["current"][Len(tagCalls'["current"])]
          IN  /\ frame[p].fn = "do_main"
              /\ ResultsWith(e.node_id, frame[p].n_c_code, TestCommand, 0) # {}
              /\ ResultsWith(e.node_id, frame[p].n_c_code, TestCommand, 1) = {}
              /\ e.reason \notin {ReasonTranspile, ReasonSplitFfi} =>
                   frame[p].n_op_check = "passed" ]_vars

\* do_main accepted three trees, the last one a rewrite of the LLM, after
\* another tree had failed the tests.
C38_Witness ==
  /\ Len(tagCalls["current"]) = 3
  /\ tagCalls["current"][1].node_id = Digest(3)
  /\ tagCalls["current"][3].node_id = Digest(26)
  /\ tagCalls["current"][3].reason = ReasonSafety(0)
  /\ ResultsWith(Digest(25), CTreeId, TestCommand, 1) # {}
  /\ frame["p"].outcome = "returned"

\* C39: a do_transpile call without a C-code node, made when the index of the
\* given compile commands node has the entry of a stored compile-commands
\* operation of the current kind whose compile_commands is that node, does
\* not raise ValueError: it goes on with the operation's c_code.
C39_LookupFindsCurrentOp ==
  \A p \in Procs :
    ( /\ frame[p].fn = "do_transpile"
      /\ frame[p].stage = "idle"
      /\ frame[p].outcome # "none"
      /\ frame[p].n_c_code = NoId
      /\ result[p].op = "index"
      /\ result[p].kind # "error"
      /\ \E i \in DOMAIN result[p].entries :
           /\ result[p].entries[i].node_id \in Stored
           /\ result[p].entries[i].kind = KIND("CompileCommandsOpNode")
           /\ result[p].entries[i].key = "compile_commands"
           /\ LET n == LoadNode(nodes[result[p].entries[i].node_id].data)
              IN  /\ n.ok
                  /\ n.cls = "CompileCommandsOpNode"
                  /\ DictGet(n.metadata, "compile_commands") = PNodeId(frame[p].input) )
    => /\ frame[p].outcome = "returned"
       /\ frame[p].error # "ValueError"
       /\ frame[p].c_code = Digest(3)

\* C12: a load that has entered the migration loop leaves it, with a node or
\* with an exception.
C12_LoadTerminates == (pc["p"] = "resolve") ~> (pc["p"] = "idle")
====
